---- MODULE Spec2Model ----
(***************************************************************************)
(* Model of ytdl's interactive terminal UI: the format selector of         *)
(* format_selector (ui_display_formats, update_format_display,             *)
(* handle_format_shortcut, ui_select_format_interactive), the session      *)
(* lifecycle of terminal_ui.c (ui_init, ui_cleanup, ui_handle_resize,      *)
(* ui_signal_handler, ui_lock/ui_unlock, ui_show_error), the control flow  *)
(* of main(), and the progress record of the progress module               *)
(* (ui_update_progress, ui_calculate_speed, ui_show_progress).             *)
(***************************************************************************)
EXTENDS Integers, Sequences, FiniteSets, TLC

VARIABLES
  pc,                 \* position of the main thread in main()
  tty_lines,          \* rows of the real terminal (what getmaxyx reports)
  in_curses,          \* TRUE between initscr/reset_prog_mode and endwin
  tty_attrs,          \* attributes of the terminal device
  termios_saved,      \* static termios_saved of terminal_ui.c
  tcsetattr_done,     \* restore_terminal_state called tcsetattr
  g_ui_state,         \* TRUE when g_ui_state points at the UI state
  ncurses_available,  \* UIState.ncurses_available
  use_ui,             \* main's use_ui
  term_height,        \* UIState.term_height
  content_height,     \* getmaxy (state->content_window)
  resize_pending,     \* UIState.resize_pending
  shutdown_pending,   \* UIState.shutdown_pending
  stdscr_delay,       \* input delay of stdscr in ms, -1 = blocking
  win_delay,          \* input delay of the content window, -1 = blocking
  content_view,       \* what was last drawn in the content window
  status_msg,         \* what was last drawn in the status window
  formats,            \* main's formats array (NULL or a sequence)
  ls_formats,         \* FormatListState.formats
  total_formats,      \* FormatListState.total_formats
  selected_index,     \* FormatListState.selected_index
  visible_start,      \* FormatListState.visible_start
  visible_lines,      \* FormatListState.visible_lines
  selecting,          \* local of ui_select_format_interactive
  selected_format,    \* local of ui_select_format_interactive
  format_code,        \* main's format_code
  download_arg,       \* format code handed to download_video
  result,             \* main's result
  h_lastKey,          \* history: the key action just dispatched by the selector
  h_outcome,          \* history: why the selector returned
  h_init_ok,          \* history: ui_init returned 0
  h_cleanups,         \* history: number of ui_cleanup calls that tore down
  progress,           \* the DownloadProgress record
  h_calls,            \* history: (now, downloaded) of the first two updates
  h_times,            \* history: the timestamps written to the ring
  h_updates,          \* history: number of ui_update_progress calls
  h_irregular,        \* history: number of updates off the steady pace
  ui_mutex,           \* UIState.ui_mutex
  h_unguarded,        \* history: call sites that mutated a panel without the mutex
  h_locked_read,      \* history: an input read was issued with the mutex held
  h_lock_misuse,      \* history: call sites that locked or destroyed the held mutex
  handles,            \* the window and panel handles of UIState
  stderr_msg,         \* what ui_show_error last wrote to stderr
  h_downs,            \* history: Down presses since the first render, -1 = other keys came between
  h_ch,               \* history: the key the default arm just handled, 0 = none
  h_resizes,          \* history: number of SIGWINCH deliveries
  h_api,              \* history: the UI entry point just called, with its arguments
  dl_format_arg,      \* the argument after -f in the argv of yt-dlp, NULL = no argv built
  h_prompt,           \* history: what prompt_for_format read from stdin
  dl_args,            \* the array build_download_command_args filled
  dl_result,          \* how the child ended and what download_video returned
  win_geom,           \* first row and number of rows of the three windows
  decl_reached,       \* the last initialised declaration of main's UI locals
  video_info_allocated, \* main's video_info_allocated
  h_label             \* history: what main's cleanup label performed

varsTty  == <<tty_lines, in_curses, tty_attrs, termios_saved, tcsetattr_done>>
varsUI   == <<g_ui_state, ncurses_available, term_height, content_height,
              resize_pending, shutdown_pending, stdscr_delay, win_delay,
              content_view, status_msg>>
varsList == <<ls_formats, total_formats, selected_index, visible_start,
              visible_lines>>
varsSel  == <<selecting, selected_format, h_lastKey, h_outcome>>
varsMain == <<pc, use_ui, formats, format_code, download_arg, result,
              h_init_ok, h_cleanups>>
varsProg == <<progress, h_calls, h_times, h_updates, h_irregular>>
varsLock == <<ui_mutex, h_unguarded, h_locked_read, h_lock_misuse>>
varsSurf == <<handles, stderr_msg, win_geom>>
varsHist == <<h_downs, h_ch, h_resizes, h_api>>
varsCmd  == <<dl_format_arg, h_prompt, dl_args, dl_result>>
varsLabel == <<decl_reached, video_info_allocated, h_label>>
vars == <<varsTty, varsUI, varsList, varsSel, varsMain, varsProg, varsLock,
          varsSurf, varsHist, varsCmd, varsLabel>>

----------------------------------------------------------------------------
(* Bounds *)

MaxFormats    == 3    \* longest format list
MinTermHeight == 8    \* smallest terminal (rows)
MaxTermHeight == 11   \* largest terminal (rows)
MaxIndex      == 5    \* cap on |selected_index| (the C int is unbounded here)
MaxUpdates    == 14   \* ui_update_progress calls in one run
MaxIrregular  == 2    \* updates of a run that are off the steady pace
TotalSize     == 20   \* the total passed by a caller that knows the size
MaxResizes    == 1    \* SIGWINCH deliveries in one run
MaxListLen    == 15   \* longest list of the key-driven list runs
MaxListHeight == 19   \* largest terminal of the key-driven list runs
MaxLineLen    == 3    \* longest line typed at the text prompt

----------------------------------------------------------------------------
(* Values *)

NULL     == "NULL"           \* a null char pointer
NoString == "not_a_string"   \* a JSON member that is absent or not a string
NoList   == << >>            \* a null json_t array pointer

\* key codes: ASCII for characters, ncurses codes for function keys
ERR       == -1
KEY_DOWN  == 258
KEY_UP    == 259
KEY_HOME  == 262
KEY_NPAGE == 338
KEY_PPAGE == 339
KEY_ENTER == 343
KEY_END   == 360
ESC       == 27

BLOCKING              == -1    \* wtimeout (win, -1)
UI_UPDATE_INTERVAL_MS == 100
ESC_WAIT_MS           == 100   \* wtimeout (state->content_window, 100)

TermHeights == MinTermHeight..MaxTermHeight

\* the kinds of entries a formats array may hold; format_id is filled in by
\* position so that distinct entries carry distinct identifiers
EntryKinds == { [has_id |-> TRUE,  resolution |-> "1920x1080"],
                [has_id |-> TRUE,  resolution |-> "audio only"],
                [has_id |-> TRUE,  resolution |-> "N/A"],
                [has_id |-> FALSE, resolution |-> "1280x720"] }

MkEntry(k, i) == [format_id  |-> IF k.has_id THEN "f" \o ToString(i) ELSE NoString,
                  resolution |-> k.resolution]

FormatLists ==
  UNION { { [i \in 1..n |-> MkEntry(ks[i], i)] : ks \in [1..n -> EntryKinds] }
          : n \in 1..MaxFormats }

FormatCodes == { "f" \o ToString(i) : i \in 1..MaxFormats }

----------------------------------------------------------------------------
(* terminal_ui.c: the render mutex *)

\* one step of a handler that concerns the mutex: "init", "destroy", "lock",
\* "unlock", "mutate" (erase, draw, touch, refresh, raise or hide of a panel
\* or of the screen) and "read" (an input read), at a call site
Op(o, s) == [op |-> o, site |-> s]

\* ui_lock, the drawing calls of the function s, ui_unlock
LockedDraw(s) == <<Op("lock", s), Op("mutate", s), Op("unlock", s)>>

\* the steps of a handler applied in order to acc = (mutex, unguarded sites,
\* read under lock); ub tells whether a lock call on a mutex that was never
\* initialised or is destroyed acquires it
RECURSIVE ApplyOps(_, _, _)
ApplyOps(acc, ops, ub) ==
  IF ops = << >> THEN acc
  ELSE LET o == Head(ops)
           usable == acc.m \in {"unlocked", "locked"}
           next ==
             CASE o.op = "init"    -> [acc EXCEPT !.m = "unlocked"]
               [] o.op = "destroy" ->
                    [acc EXCEPT !.m = "destroyed",
                                !.mis = IF acc.m = "locked"
                                          THEN acc.mis \cup {o.site}
                                          ELSE acc.mis]
               [] o.op = "lock"    ->
                    IF usable \/ ub
                      THEN [acc EXCEPT !.m = "locked",
                                       !.mis = IF acc.m = "locked"
                                                 THEN acc.mis \cup {o.site}
                                                 ELSE acc.mis]
                      ELSE acc
               [] o.op = "unlock"  ->
                    IF acc.m = "locked" THEN [acc EXCEPT !.m = "unlocked"]
                                        ELSE acc
               [] o.op = "mutate"  ->
                    IF acc.m = "locked" THEN acc
                    ELSE [acc EXCEPT !.ung = acc.ung \cup {o.site}]
               [] o.op = "read"    ->
                    IF acc.m = "locked" THEN [acc EXCEPT !.lr = TRUE]
                                        ELSE acc
       IN ApplyOps(next, Tail(ops), ub)

RunOpsUb(ops, ub) ==
  LET r == ApplyOps([m |-> ui_mutex, ung |-> h_unguarded,
                     lr |-> h_locked_read, mis |-> h_lock_misuse], ops, ub)
  IN /\ ui_mutex' = r.m
     /\ h_unguarded' = r.ung
     /\ h_locked_read' = r.lr
     /\ h_lock_misuse' = r.mis

\* the steps of a handler that runs while the mutex is initialised
RunOps(ops) == RunOpsUb(ops, FALSE)

\* ui_show_status: returns at once without ncurses, else draws under the lock
UiShowStatusOps == IF ncurses_available THEN LockedDraw("ui_show_status")
                                        ELSE << >>

----------------------------------------------------------------------------
(* terminal_ui.c: windows, lifecycle, signals *)

HandleNames == {"header_window", "status_window", "content_window",
                "header_panel", "content_panel", "status_panel"}

\* memset (state, 0, ...): every handle is a null pointer
NoHandles == [h \in HandleNames |-> "null"]

AllLive == [h \in HandleNames |-> "live"]

\* the ways create_windows may end: all windows created, or newwin failing
\* for the header, the status or the content window
CreateModes == {"ok", "header_fail", "status_fail", "content_fail"}

\* create_windows: the handles it leaves behind; a window created before the
\* failing newwin is deleted again and its handle keeps pointing at it
CreateWindows(old, how) ==
  CASE how = "ok"           -> AllLive
    [] how = "header_fail"  -> [old EXCEPT !["header_window"] = "null"]
    [] how = "status_fail"  -> [old EXCEPT !["header_window"] = "deleted",
                                           !["status_window"] = "null"]
    [] how = "content_fail" -> [old EXCEPT !["header_window"] = "deleted",
                                           !["status_window"] = "deleted",
                                           !["content_window"] = "null"]

\* del_panel / delwin on every handle: the handle keeps its value
DeleteAll(old) ==
  [h \in HandleNames |-> IF old[h] = "null" THEN "null" ELSE "deleted"]

\* no window exists
NoGeometry ==
  [w \in {"header", "status", "content"} |-> [y |-> 0, rows |-> 0]]

WindowGeometry_contentOverStatus(h) ==
  [header  |-> [y |-> 0, rows |-> 4],
   status  |-> [y |-> h - 1, rows |-> 1],
   content |-> [y |-> 4, rows |-> h - 4]]

\* create_windows: the newwin calls for a terminal of h rows
WindowGeometry(h) ==
  [header  |-> [y |-> 0, rows |-> 4],
   status  |-> [y |-> h - 1, rows |-> 1],
   content |-> [y |-> 4, rows |-> h - 5]]

\* create_windows: the content window gets the rows left by the 4-row header
\* and the 1-row status line
ContentHeight(h) == h - 5

\* ui_display_formats: rows of the content window left for list entries
VisibleLines(ch) == ch - 4

UiCleanup_noGuard ==
  /\ g_ui_state' = FALSE
  /\ handles' = DeleteAll(handles)
  /\ win_geom' = win_geom
  /\ in_curses' = FALSE
  /\ tty_attrs' = "original"
  /\ tcsetattr_done' = termios_saved
  /\ ncurses_available' = FALSE
  /\ h_cleanups' = h_cleanups + 1

\* ui_cleanup: tears the UI down unless ncurses_available is already false
UiCleanup ==
  IF ~ncurses_available
    THEN UNCHANGED <<g_ui_state, ncurses_available, in_curses, tty_attrs,
                     tcsetattr_done, h_cleanups, handles, win_geom>>
    ELSE /\ g_ui_state' = FALSE
         /\ handles' = DeleteAll(handles)            \* del_panel, delwin
         /\ win_geom' = win_geom
         /\ in_curses' = FALSE                       \* endwin
         /\ tty_attrs' = "original"                  \* endwin / tcsetattr
         /\ tcsetattr_done' = termios_saved          \* restore_terminal_state
         /\ ncurses_available' = FALSE
         /\ h_cleanups' = h_cleanups + 1

\* ui_cleanup: pthread_mutex_destroy when it tears down
UiCleanupOps == IF ncurses_available THEN <<Op("destroy", "ui_cleanup")>>
                                     ELSE << >>

\* the ways ui_init may end
InitModes == {"ok", "mutex_fail", "initscr_fail"} \cup (CreateModes \ {"ok"})

\* ui_init got as far as initscr succeeding
InitReachedCurses(how) == how \in CreateModes

\* ui_init: what it leaves in the UI state and the terminal; saved tells
\* whether tcgetattr succeeded
UiInit(how, saved) ==
  /\ termios_saved' = IF how = "mutex_fail" THEN FALSE ELSE saved
  /\ ncurses_available' = InitReachedCurses(how)
  /\ in_curses' = (how = "ok")
  /\ tty_attrs' = IF how = "ok" THEN "curses" ELSE "original"
  /\ term_height' = IF InitReachedCurses(how) THEN tty_lines ELSE 0
  /\ content_height' = IF how = "ok" THEN ContentHeight(tty_lines) ELSE 0
  /\ stdscr_delay' = IF InitReachedCurses(how)
                       THEN UI_UPDATE_INTERVAL_MS ELSE stdscr_delay
  /\ handles' = IF InitReachedCurses(how)
                  THEN CreateWindows(NoHandles, how) ELSE NoHandles
  /\ win_geom' = IF InitReachedCurses(how)
                   THEN WindowGeometry(tty_lines) ELSE NoGeometry
  /\ g_ui_state' = (how = "ok")
  /\ resize_pending' = 0
  /\ shutdown_pending' = 0

\* ui_init: pthread_mutex_init, and pthread_mutex_destroy on the failures
\* after it
UiInitOps(how) ==
  CASE how = "ok"         -> <<Op("init", "ui_init")>>
    [] how = "mutex_fail" -> << >>
    [] OTHER              -> <<Op("init", "ui_init"), Op("destroy", "ui_init")>>

MainUiInit_useUiAlways ==
  /\ pc = "ui_init"
  /\ \E how \in InitModes, saved \in BOOLEAN :
       /\ UiInit(how, saved)
       /\ use_ui' = TRUE
       /\ h_init_ok' = (how = "ok")
       /\ status_msg' = IF how = "ok" THEN "Fetching video information..."
                                      ELSE status_msg
       /\ RunOps(UiInitOps(how)
                 \o (IF how = "ok" THEN LockedDraw("ui_show_status")
                                   ELSE << >>))
  /\ pc' = "get_info"
  /\ decl_reached' = "use_ui"
  /\ UNCHANGED <<tty_lines, tcsetattr_done, win_delay, content_view,
                 varsList, varsSel, formats, format_code, download_arg,
                 result, h_cleanups, stderr_msg, video_info_allocated,
                 h_label>>
  /\ UNCHANGED <<varsProg, varsCmd, varsHist>>

\* ui_init, called once from main, and ui_show_status on success
MainUiInit ==
  /\ pc = "ui_init"
  /\ \E how \in InitModes, saved \in BOOLEAN :
       /\ UiInit(how, saved)
       /\ use_ui' = (how = "ok")
       /\ h_init_ok' = (how = "ok")
       /\ status_msg' = IF how = "ok" THEN "Fetching video information..."
                                      ELSE status_msg
       /\ RunOps(UiInitOps(how)
                 \o (IF how = "ok" THEN LockedDraw("ui_show_status")
                                   ELSE << >>))
  /\ pc' = "get_info"
  /\ decl_reached' = "use_ui"
  /\ UNCHANGED <<tty_lines, tcsetattr_done, win_delay, content_view,
                 varsList, varsSel, formats, format_code, download_arg,
                 result, h_cleanups, stderr_msg, video_info_allocated,
                 h_label>>
  /\ UNCHANGED <<varsProg, varsCmd, varsHist>>

UiSignalHandler_noStateCheck(sig) ==
  /\ resize_pending' = IF sig = "SIGWINCH" THEN 1 ELSE resize_pending
  /\ shutdown_pending' = IF sig \in {"SIGINT", "SIGTERM"}
                           THEN 1 ELSE shutdown_pending

\* ui_signal_handler: the flags after signal sig
UiSignalHandler(sig) ==
  /\ resize_pending' = IF g_ui_state /\ sig = "SIGWINCH"
                         THEN 1 ELSE resize_pending
  /\ shutdown_pending' = IF g_ui_state /\ sig \in {"SIGINT", "SIGTERM"}
                           THEN 1 ELSE shutdown_pending

\* SIGWINCH, delivered when the terminal is resized to h rows; the handler
\* is installed by ui_init and never removed
Sigwinch ==
  /\ h_init_ok
  /\ pc \notin {"exited", "crashed"}
  /\ h_resizes < MaxResizes
  /\ \E h \in TermHeights \ {tty_lines} : tty_lines' = h
  /\ UiSignalHandler("SIGWINCH")
  /\ h_resizes' = h_resizes + 1
  /\ UNCHANGED <<in_curses, tty_attrs, termios_saved, tcsetattr_done,
                 g_ui_state, ncurses_available, term_height, content_height,
                 stdscr_delay, win_delay, content_view, status_msg, varsList,
                 varsSel, varsMain, h_downs, h_ch, h_api>>
  /\ UNCHANGED <<varsProg, varsCmd, varsLabel, varsLock, varsSurf>>

\* SIGINT / SIGTERM
Sigint ==
  /\ h_init_ok
  /\ pc \notin {"exited", "crashed"}
  /\ \E sig \in {"SIGINT", "SIGTERM"} : UiSignalHandler(sig)
  /\ UNCHANGED <<varsTty, g_ui_state, ncurses_available, term_height,
                 content_height, stdscr_delay, win_delay, content_view,
                 status_msg, varsList, varsSel, varsMain>>
  /\ UNCHANGED <<varsProg, varsCmd, varsLabel, varsLock, varsSurf, varsHist>>

UiHandleResize_resetsSelection(how) ==
  /\ UNCHANGED <<ls_formats, total_formats, visible_lines>>
  /\ IF resize_pending = 0
       THEN UNCHANGED <<term_height, content_height, content_view, win_delay,
                        resize_pending, handles, win_geom, selected_index,
                        visible_start>>
       ELSE /\ term_height' = tty_lines
            /\ handles' = CreateWindows(DeleteAll(handles), how)
            /\ win_geom' = WindowGeometry(tty_lines)
            /\ content_height' = IF how = "ok" THEN ContentHeight(tty_lines)
                                               ELSE content_height
            /\ content_view' = "blank"
            /\ win_delay' = BLOCKING
            /\ resize_pending' = 0
            /\ selected_index' = 0
            /\ visible_start' = 0

\* ui_handle_resize: on a latched resize, delete the panels and windows and
\* recreate them (create_windows, ending as how, its result not looked at)
\* for the current terminal size; nothing is drawn in the new content
\* window and the list state is not touched
UiHandleResize(how) ==
  /\ UNCHANGED varsList
  /\ IF resize_pending = 0
       THEN UNCHANGED <<term_height, content_height, content_view, win_delay,
                        resize_pending, handles, win_geom>>
       ELSE /\ term_height' = tty_lines
            /\ handles' = CreateWindows(DeleteAll(handles), how)
            /\ win_geom' = WindowGeometry(tty_lines)
            /\ content_height' = IF how = "ok" THEN ContentHeight(tty_lines)
                                               ELSE content_height
            /\ content_view' = "blank"
            /\ win_delay' = BLOCKING
            /\ resize_pending' = 0

UiHandleResizeOps_noUnlock ==
  IF resize_pending = 0 THEN << >>
  ELSE <<Op("lock", "ui_handle_resize"), Op("mutate", "ui_handle_resize")>>

\* ui_handle_resize: everything after the early return runs under the lock
UiHandleResizeOps ==
  IF resize_pending = 0 THEN << >> ELSE LockedDraw("ui_handle_resize")

\* ui_show_error takes the panel branch
UiShowErrorOnPanel(state_null) == ~state_null /\ ncurses_available

\* what a draw into a window leaves on the screen: the text for a live
\* window, nothing for a null handle (the curses calls return ERR), and
\* either of the two for a handle to a deleted window (undefined)
DrawOutcomes(handle, old, text) ==
  CASE handle = "live" -> {text}
    [] handle = "null" -> {old}
    [] OTHER           -> {old, text}

\* ui_show_error: the message goes to stderr for a null state or without
\* ncurses_available, else to the status window
UiShowError(state_null, msg) ==
  IF UiShowErrorOnPanel(state_null)
    THEN /\ status_msg' \in DrawOutcomes(handles["status_window"],
                                         status_msg, "ERROR: " \o msg)
         /\ UNCHANGED stderr_msg
    ELSE /\ stderr_msg' = "Error: " \o msg
         /\ UNCHANGED status_msg

UiShowErrorOps(state_null) ==
  IF UiShowErrorOnPanel(state_null) THEN LockedDraw("ui_show_error")
                                    ELSE << >>

----------------------------------------------------------------------------
(* format selector *)

\* update_format_display, first half: keep the selected index visible
ScrollStart(sel, vs, vl) ==
  IF sel < vs THEN sel
  ELSE IF sel >= vs + vl THEN sel - vl + 1
  ELSE vs

\* update_format_display: scroll with the visible_lines of the previous
\* render, then redraw with ui_display_formats, which recomputes
\* visible_lines from the content window
UpdateFormatDisplay(sel) ==
  /\ selected_index' = sel
  /\ visible_start' = ScrollStart(sel, visible_start, visible_lines)
  /\ visible_lines' = VisibleLines(content_height)
  /\ content_view' = "list"
  /\ UNCHANGED <<ls_formats, total_formats>>

\* ui_display_formats draws under the lock
UiDisplayFormatsOps == LockedDraw("ui_display_formats")

\* the blocking or timed wgetch of the selection loop
ReadOp == Op("read", "wgetch")

\* the arms of the key switch of ui_select_format_interactive: the index a
\* key moves to
KeyUpIndex(sel) == IF sel > 0 THEN sel - 1 ELSE sel

KeyDownIndex(sel, total) == IF sel < total - 1 THEN sel + 1 ELSE sel

PageUpIndex(sel, vl) == IF sel - vl < 0 THEN 0 ELSE sel - vl

PageDownIndex_noClamp(sel, vl, total) == sel + vl

PageDownIndex(sel, vl, total) ==
  IF sel + vl >= total THEN total - 1 ELSE sel + vl

\* resolution label of entry i as handle_format_shortcut reads it
ResolutionOf(fs, i) ==
  IF fs[i + 1].resolution = NoString THEN "N/A" ELSE fs[i + 1].resolution

IsAudioLabel_sentinelOnly(r) == r = "N/A"

\* strcmp (resolution, "N/A") == 0 || strstr (resolution, "audio"), on the
\* labels of EntryKinds
IsAudioLabel(r) == r = "N/A" \/ r = "audio only"

ShortcutIndex_digitOffByOne(ch, fs, total) ==
  IF ch \in {98, 66} THEN 0
  ELSE IF ch \in {119, 87} THEN total - 1
  ELSE IF ch \in {97, 65}
    THEN LET hits == { i \in 0..(total - 1) :
                         IsAudioLabel(ResolutionOf(fs, i)) }
         IN IF hits = {} THEN -1
            ELSE CHOOSE i \in hits : \A j \in hits : i <= j
  ELSE IF ch >= 49 /\ ch <= 57
    THEN IF ch - 48 < total THEN ch - 48 ELSE -1
  ELSE -1

\* handle_format_shortcut: the index selected by key ch, or -1 when ch is
\* not an applicable shortcut (return 0)
ShortcutIndex(ch, fs, total) ==
  IF ch \in {98, 66} THEN 0                               \* 'b' 'B'
  ELSE IF ch \in {119, 87} THEN total - 1                 \* 'w' 'W'
  ELSE IF ch \in {97, 65}                                 \* 'a' 'A'
    THEN LET hits == { i \in 0..(total - 1) :
                         IsAudioLabel(ResolutionOf(fs, i)) }
         IN IF hits = {} THEN -1
            ELSE CHOOSE i \in hits : \A j \in hits : i <= j
  ELSE IF ch >= 49 /\ ch <= 57                            \* '1'..'9'
    THEN IF ch - 49 < total THEN ch - 49 ELSE -1
  ELSE -1

InCap(i) == i >= -MaxIndex /\ i <= MaxIndex

NavKeys  == {KEY_UP, KEY_DOWN, KEY_PPAGE, KEY_NPAGE, KEY_HOME, KEY_END}
EnterKeys == {10, 13, KEY_ENTER}                 \* '\n' '\r' KEY_ENTER
QuitKeys == {113, 81}                            \* 'q' 'Q'
DigitKeys == 49..57                              \* '1'..'9'
\* the keys that reach the default arm: shortcuts, a key with no meaning
\* ('x'), and the error value of wgetch
DefaultKeys == {98, 66, 119, 87, 97, 65} \cup DigitKeys \cup {120, ERR}

KeyLabel(ch) ==
  CASE ch = KEY_UP    -> "up"
    [] ch = KEY_DOWN  -> "down"
    [] ch = KEY_PPAGE -> "page_up"
    [] ch = KEY_NPAGE -> "page_down"
    [] ch = KEY_HOME  -> "home"
    [] ch = KEY_END   -> "end"
    [] OTHER          -> "other"

\* the index a navigation key moves to
NavIndex(ch, sel, vl, total) ==
  CASE ch = KEY_UP    -> KeyUpIndex(sel)
    [] ch = KEY_DOWN  -> KeyDownIndex(sel, total)
    [] ch = KEY_PPAGE -> PageUpIndex(sel, vl)
    [] ch = KEY_NPAGE -> PageDownIndex(sel, vl, total)
    [] ch = KEY_HOME  -> 0
    [] ch = KEY_END   -> total - 1

\* whether the arm of a navigation key calls update_format_display: the
\* arrow arms only when the index moved, the others always
NavRedraws(ch, sel, total) ==
  CASE ch = KEY_UP   -> sel > 0
    [] ch = KEY_DOWN -> sel < total - 1
    [] OTHER         -> TRUE

\* one navigation arm applied to the list state
NavArm(ch) ==
  IF NavRedraws(ch, selected_index, total_formats)
    THEN UpdateFormatDisplay(NavIndex(ch, selected_index, visible_lines,
                                      total_formats))
    ELSE UNCHANGED <<varsList, content_view>>

NavOps_lockAroundDisplay(ch) ==
  IF NavRedraws(ch, selected_index, total_formats)
    THEN <<Op("lock", "update_format_display")>> \o UiDisplayFormatsOps
           \o <<Op("unlock", "update_format_display")>>
    ELSE << >>

\* the mutex steps of a navigation arm
NavOps(ch) ==
  IF NavRedraws(ch, selected_index, total_formats) THEN UiDisplayFormatsOps
                                                   ELSE << >>

\* a navigation arm whose index stays inside the cap of the model
DoNav(ch) ==
  /\ InCap(NavIndex(ch, selected_index, visible_lines, total_formats))
  /\ NavArm(ch)

DefaultArm_ignoredKeyResets(ch) ==
  LET idx == ShortcutIndex(ch, ls_formats, total_formats)
  IN IF idx >= 0
       THEN /\ UpdateFormatDisplay(idx)
            /\ h_lastKey' = "shortcut"
       ELSE /\ selected_index' = 0
            /\ UNCHANGED <<ls_formats, total_formats, visible_start,
                           visible_lines, content_view>>
            /\ h_lastKey' = "ignored"

\* the default arm: a shortcut that applies moves the selection and redraws,
\* any other key is ignored
DefaultArm(ch) ==
  LET idx == ShortcutIndex(ch, ls_formats, total_formats)
  IN IF idx >= 0
       THEN /\ UpdateFormatDisplay(idx)
            /\ h_lastKey' = "shortcut"
       ELSE /\ UNCHANGED <<varsList, content_view>>
            /\ h_lastKey' = "ignored"

DefaultOps(ch) ==
  IF ShortcutIndex(ch, ls_formats, total_formats) >= 0
    THEN UiDisplayFormatsOps ELSE << >>

\* ui_display_formats called by main with a fresh FormatListState
FirstDisplayFormats(fs) ==
  /\ ls_formats' = fs
  /\ total_formats' = Len(fs)
  /\ selected_index' = 0
  /\ visible_start' = 0
  /\ visible_lines' = VisibleLines(content_height)
  /\ content_view' = "list"

\* Enter arm: json_array_get yields an entry only for an index inside the
\* array, and the entry must have a string format_id
HasStringId(fs, sel) ==
  /\ sel >= 0
  /\ sel < Len(fs)
  /\ fs[sel + 1].format_id # NoString

EnterResult_firstEntry(fs, sel, ok) ==
  IF ~HasStringId(fs, sel) THEN NULL
  ELSE IF ~ok THEN NULL
  ELSE fs[1].format_id

\* the string the Enter arm leaves in selected_format when malloc succeeds
\* (ok) or fails
EnterResult(fs, sel, ok) ==
  IF ~HasStringId(fs, sel) THEN NULL
  ELSE IF ~ok THEN NULL
  ELSE fs[sel + 1].format_id

\* top of the while loop of ui_select_format_interactive: the loop test and
\* ui_handle_resize; the wgetch that follows is the first step of the
\* action for the key it returns
SelLoopTop ==
  /\ pc = "sel_loop"
  /\ IF selecting /\ shutdown_pending = 0
       THEN /\ \E how \in (IF resize_pending = 0 THEN {"ok"}
                                                 ELSE CreateModes) :
                 UiHandleResize(how)
            /\ RunOps(UiHandleResizeOps)
            /\ pc' = "sel_getch"
            /\ UNCHANGED h_outcome
       ELSE /\ pc' = "sel_exit"
            /\ h_outcome' = IF selecting THEN "shutdown" ELSE h_outcome
            /\ UNCHANGED <<term_height, content_height, content_view,
                           win_delay, resize_pending, handles, win_geom, varsList,
                           varsLock>>
  /\ h_lastKey' = "none"
  /\ h_ch' = 0
  /\ UNCHANGED <<varsTty, g_ui_state, ncurses_available, shutdown_pending,
                 stdscr_delay, status_msg, selecting,
                 selected_format, use_ui, formats, format_code,
                 download_arg, result, h_init_ok, h_cleanups, stderr_msg>>
  /\ UNCHANGED <<varsProg, varsCmd, varsLabel, h_downs, h_resizes, h_api>>

\* a navigation key read by the blocking wgetch
SelKeyNav ==
  /\ pc = "sel_getch"
  /\ \E ch \in NavKeys :
       /\ DoNav(ch)
       /\ RunOps(<<ReadOp>> \o NavOps(ch))
       /\ h_lastKey' = KeyLabel(ch)
  /\ pc' = "sel_loop"
  /\ UNCHANGED <<varsTty, g_ui_state, ncurses_available, term_height,
                 content_height, resize_pending, shutdown_pending,
                 stdscr_delay, win_delay, status_msg, selecting,
                 selected_format, h_outcome, use_ui, formats, format_code,
                 download_arg, result, h_init_ok, h_cleanups>>
  /\ UNCHANGED <<varsProg, varsCmd, varsLabel, varsSurf, varsHist>>

\* Enter: copy the format_id of the selected entry and leave the loop
SelKeyEnter ==
  /\ pc = "sel_getch"
  /\ \E ok \in BOOLEAN :
       /\ selected_format' = EnterResult(ls_formats, selected_index, ok)
       /\ h_outcome' = IF ~HasStringId(ls_formats, selected_index)
                         THEN "error_no_id"
                       ELSE IF ~ok THEN "error_alloc"
                       ELSE "selected"
  /\ selecting' = FALSE
  /\ h_lastKey' = "enter"
  /\ RunOps(<<ReadOp>>)
  /\ pc' = "sel_loop"
  /\ UNCHANGED <<varsTty, varsUI, varsList, use_ui, formats, format_code,
                 download_arg, result, h_init_ok, h_cleanups>>
  /\ UNCHANGED <<varsProg, varsCmd, varsLabel, varsSurf, varsHist>>

\* q / Q: leave the loop with no selection
SelKeyQuit ==
  /\ pc = "sel_getch"
  /\ selecting' = FALSE
  /\ h_outcome' = "cancelled"
  /\ h_lastKey' = "quit"
  /\ RunOps(<<ReadOp>>)
  /\ pc' = "sel_loop"
  /\ UNCHANGED <<varsTty, varsUI, varsList, selected_format, use_ui, formats,
                 format_code, download_arg, result, h_init_ok, h_cleanups>>
  /\ UNCHANGED <<varsProg, varsCmd, varsLabel, varsSurf, varsHist>>

\* a key that reaches the default arm
SelKeyDefault ==
  /\ pc = "sel_getch"
  /\ \E ch \in DefaultKeys :
       /\ DefaultArm(ch)
       /\ RunOps(<<ReadOp>> \o DefaultOps(ch))
       /\ h_ch' = ch
  /\ pc' = "sel_loop"
  /\ UNCHANGED <<varsTty, g_ui_state, ncurses_available, term_height,
                 content_height, resize_pending, shutdown_pending,
                 stdscr_delay, win_delay, status_msg, selecting,
                 selected_format, h_outcome, use_ui, formats, format_code,
                 download_arg, result, h_init_ok, h_cleanups>>
  /\ UNCHANGED <<varsProg, varsCmd, varsLabel, varsSurf, h_downs, h_resizes, h_api>>

\* ESC read by the blocking wgetch: wait up to 100 ms for a follow-up byte
SelKeyEsc ==
  /\ pc = "sel_getch"
  /\ win_delay' = ESC_WAIT_MS
  /\ h_lastKey' = "esc"
  /\ RunOps(<<ReadOp>>)
  /\ pc' = "esc_next"
  /\ UNCHANGED <<varsTty, g_ui_state, ncurses_available, term_height,
                 content_height, resize_pending, shutdown_pending,
                 stdscr_delay, content_view, status_msg, varsList, selecting,
                 selected_format, h_outcome, use_ui, formats, format_code,
                 download_arg, result, h_init_ok, h_cleanups>>
  /\ UNCHANGED <<varsProg, varsCmd, varsLabel, varsSurf, varsHist>>

\* second read of the escape handling: ERR (nothing within the window) is a
\* standalone ESC and cancels, '[' starts a sequence, anything else is dropped
EscNextArm_noCancel(next_ch) ==
  IF next_ch = 91 THEN "sequence"
  ELSE "drop"

EscNextArm(next_ch) ==
  IF next_ch = ERR THEN "cancel"
  ELSE IF next_ch = 91 THEN "sequence"                       \* '['
  ELSE "drop"

\* history label of what followed the ESC byte
EscNextLabel(next_ch) ==
  IF next_ch = ERR THEN "esc_alone"
  ELSE IF next_ch = 91 THEN "esc_bracket"
  ELSE "esc_dropped"

RestoreBlocking_keepsTimeout == win_delay' = win_delay

\* end of the escape handling: wtimeout (state->content_window, -1)
RestoreBlocking == win_delay' = BLOCKING

SelEscNext ==
  /\ UNCHANGED <<varsProg, varsCmd, varsLabel, varsSurf, varsHist>>
  /\ pc = "esc_next"
  /\ RunOps(<<ReadOp>>)
  /\ \E next_ch \in {ERR, 91, 79} :                          \* ERR '[' 'O'
       /\ h_lastKey' = EscNextLabel(next_ch)
       /\ CASE EscNextArm(next_ch) = "cancel" ->
                 /\ selecting' = FALSE
                 /\ h_outcome' = "cancelled"
                 /\ RestoreBlocking
                 /\ pc' = "sel_loop"
            [] EscNextArm(next_ch) = "sequence" ->
                 /\ pc' = "esc_third"
                 /\ UNCHANGED <<selecting, h_outcome, win_delay>>
            [] OTHER ->
                 /\ RestoreBlocking
                 /\ pc' = "sel_loop"
                 /\ UNCHANGED <<selecting, h_outcome>>
  /\ UNCHANGED <<varsTty, g_ui_state, ncurses_available, term_height,
                 content_height, resize_pending, shutdown_pending,
                 stdscr_delay, content_view, status_msg, varsList,
                 selected_format, use_ui, formats, format_code, download_arg,
                 result, h_init_ok, h_cleanups>>

\* third read: the byte that names the key of an ESC [ sequence; 'A' and
\* 'B' are the arrows, '5' and '6' start the page keys, 0 stands for a byte
\* that is dropped ('C', 'D', ERR, anything else)
EscThirdKey(third_ch) ==
  CASE third_ch = 65 -> KEY_UP
    [] third_ch = 66 -> KEY_DOWN
    [] third_ch = 53 -> KEY_PPAGE
    [] third_ch = 54 -> KEY_NPAGE
    [] OTHER         -> 0

\* history label of the third byte of an ESC [ sequence
EscThirdLabel(third_ch) ==
  CASE third_ch = 65 -> "esc_up"
    [] third_ch = 66 -> "esc_down"
    [] third_ch \in {53, 54} -> "esc_bracket"
    [] OTHER -> "esc_dropped"

SelEscThird ==
  /\ UNCHANGED <<varsProg, varsCmd, varsLabel, varsSurf, varsHist>>
  /\ pc = "esc_third"
  /\ \E third_ch \in {65, 66, 67, 68, 53, 54, ERR} :   \* 'A'..'D' '5' '6'
       LET key == EscThirdKey(third_ch)
       IN /\ h_lastKey' = EscThirdLabel(third_ch)
          /\ CASE key \in {KEY_UP, KEY_DOWN} ->
                 /\ DoNav(key)
                 /\ RunOps(<<ReadOp>> \o NavOps(key))
                 /\ RestoreBlocking
                 /\ pc' = "sel_loop"
            [] key \in {KEY_PPAGE, KEY_NPAGE} ->
                 /\ pc' = IF key = KEY_PPAGE THEN "esc_tilde5"
                                             ELSE "esc_tilde6"
                 /\ RunOps(<<ReadOp>>)
                 /\ UNCHANGED <<varsList, content_view, win_delay>>
            [] OTHER ->
                 /\ RestoreBlocking
                 /\ RunOps(<<ReadOp>>)
                 /\ pc' = "sel_loop"
                 /\ UNCHANGED <<varsList, content_view>>
  /\ UNCHANGED <<varsTty, g_ui_state, ncurses_available, term_height,
                 content_height, resize_pending, shutdown_pending,
                 stdscr_delay, status_msg, selecting, selected_format,
                 h_outcome, use_ui, formats, format_code, download_arg,
                 result, h_init_ok, h_cleanups>>

\* fourth read: ESC [ 5 ~ is Page Up, ESC [ 6 ~ is Page Down
SelEscTilde ==
  /\ pc \in {"esc_tilde5", "esc_tilde6"}
  /\ \E fourth_ch \in {126, ERR} :                            \* '~'
       LET key == IF pc = "esc_tilde5" THEN KEY_PPAGE ELSE KEY_NPAGE
       IN IF fourth_ch = 126
            THEN /\ DoNav(key)
                 /\ RunOps(<<ReadOp>> \o NavOps(key))
                 /\ h_lastKey' = IF pc = "esc_tilde5" THEN "esc_page_up"
                                                      ELSE "esc_page_down"
            ELSE /\ h_lastKey' = "esc_dropped"
                 /\ RunOps(<<ReadOp>>)
                 /\ UNCHANGED <<varsList, content_view>>
  /\ RestoreBlocking
  /\ pc' = "sel_loop"
  /\ UNCHANGED <<varsTty, g_ui_state, ncurses_available, term_height,
                 content_height, resize_pending, shutdown_pending,
                 stdscr_delay, status_msg, selecting, selected_format,
                 h_outcome, use_ui, formats, format_code, download_arg,
                 result, h_init_ok, h_cleanups>>
  /\ UNCHANGED <<varsProg, varsCmd, varsLabel, varsSurf, varsHist>>

SelReturn_keepsBlocking ==
  /\ pc = "sel_exit"
  /\ stdscr_delay' = stdscr_delay
  /\ content_view' = "hidden"
  /\ format_code' = selected_format
  /\ RunOps(<<Op("mutate", "select_exit")>>)
  /\ pc' = "after_select"
  /\ UNCHANGED <<varsTty, g_ui_state, ncurses_available, term_height,
                 content_height, resize_pending, shutdown_pending, win_delay,
                 status_msg, varsList, varsSel, use_ui, formats,
                 download_arg, result, h_init_ok, h_cleanups>>
  /\ UNCHANGED <<varsProg, varsCmd, varsLabel, varsSurf, varsHist>>

\* after the loop: restore the polling input mode, hide the content panel
\* (no lock taken) and return selected_format to main
SelReturn ==
  /\ pc = "sel_exit"
  /\ stdscr_delay' = UI_UPDATE_INTERVAL_MS
  /\ content_view' = "hidden"
  /\ format_code' = selected_format
  /\ RunOps(<<Op("mutate", "select_exit")>>)
  /\ pc' = "after_select"
  /\ UNCHANGED <<varsTty, g_ui_state, ncurses_available, term_height,
                 content_height, resize_pending, shutdown_pending, win_delay,
                 status_msg, varsList, varsSel, use_ui, formats,
                 download_arg, result, h_init_ok, h_cleanups>>
  /\ UNCHANGED <<varsProg, varsCmd, varsLabel, varsSurf, varsHist>>

\* the panels and windows were not recreated by the last resize: wgetch on
\* the dead content window is undefined, and one of its outcomes is the end
\* of the process; the other outcome is that the key actions go on as above
SelCrash ==
  /\ pc = "sel_getch"
  /\ handles["content_window"] # "live"
  /\ pc' = "crashed"
  /\ UNCHANGED <<varsTty, varsUI, varsList, varsSel, use_ui, formats,
                 format_code, download_arg, result, h_init_ok, h_cleanups>>
  /\ UNCHANGED <<varsProg, varsCmd, varsLabel, varsLock, varsSurf, varsHist>>

----------------------------------------------------------------------------
(* progress display *)

SPEED_SAMPLE_SIZE == 10

\* a rate as the exact quotient num / den of the double division
Rate(n, d) == [num |-> n, den |-> d]
ZeroRate == Rate(0, 1)

\* DownloadProgress progress = { 0 }
ZeroProgress ==
  [downloaded_bytes     |-> 0,
   total_bytes          |-> 0,
   download_speed       |-> ZeroRate,
   estimated_completion |-> 0,
   samples              |-> [i \in 0..(SPEED_SAMPLE_SIZE - 1) |->
                               [timestamp |-> 0, bytes |-> 0]],
   sample_index         |-> 0,
   last_update          |-> 0]

NewestIdx(p) ==
  (p.sample_index - 1 + SPEED_SAMPLE_SIZE) % SPEED_SAMPLE_SIZE

CalculateSpeed_noByteClamp(p) ==
  LET oldest == p.samples[0]
      newest == p.samples[NewestIdx(p)]
      time_diff == newest.timestamp - oldest.timestamp
      byte_diff == newest.bytes - oldest.bytes
  IN IF p.sample_index = 0 THEN ZeroRate
     ELSE IF oldest.timestamp = 0 \/ newest.timestamp = 0 THEN ZeroRate
     ELSE IF time_diff <= 0 THEN ZeroRate
     ELSE Rate(byte_diff, time_diff)

\* ui_calculate_speed
CalculateSpeed(p) ==
  LET oldest == p.samples[0]
      newest == p.samples[NewestIdx(p)]
      time_diff == newest.timestamp - oldest.timestamp
      byte_diff == newest.bytes - oldest.bytes
  IN IF p.sample_index = 0 THEN ZeroRate
     ELSE IF oldest.timestamp = 0 \/ newest.timestamp = 0 THEN ZeroRate
     ELSE IF time_diff <= 0 THEN ZeroRate
     ELSE IF byte_diff < 0 THEN ZeroRate
     ELSE Rate(byte_diff, time_diff)

RecordSample_alwaysAppends(p, now, downloaded, total) ==
  LET q == [p EXCEPT !.downloaded_bytes = downloaded,
                     !.total_bytes = total]
      idx == (p.sample_index + 1) % SPEED_SAMPLE_SIZE
  IN [q EXCEPT !.sample_index = idx,
               !.samples[idx] = [timestamp |-> now, bytes |-> downloaded]]

\* ui_update_progress, first half: store the counters and append a ring
\* sample unless the slot under the cursor already holds this tick
RecordSample(p, now, downloaded, total) ==
  LET q == [p EXCEPT !.downloaded_bytes = downloaded,
                     !.total_bytes = total]
      idx == (p.sample_index + 1) % SPEED_SAMPLE_SIZE
  IN IF now # p.samples[p.sample_index].timestamp
       THEN [q EXCEPT !.sample_index = idx,
                      !.samples[idx] = [timestamp |-> now,
                                        bytes |-> downloaded]]
       ELSE q

UpdateProgress_resetsEta(p, now, downloaded, total) ==
  LET q == RecordSample(p, now, downloaded, total)
      speed == CalculateSpeed(q)
      eta_seconds == ((total - downloaded) * speed.den) \div speed.num
  IN [q EXCEPT !.download_speed = speed,
               !.estimated_completion =
                  IF speed.num > 0 /\ total > downloaded
                    THEN now + eta_seconds
                    ELSE 0,
               !.last_update = now]

\* ui_update_progress
UpdateProgress(p, now, downloaded, total) ==
  LET q == RecordSample(p, now, downloaded, total)
      speed == CalculateSpeed(q)
      \* (int)(remaining / speed)
      eta_seconds == ((total - downloaded) * speed.den) \div speed.num
  IN [q EXCEPT !.download_speed = speed,
               !.estimated_completion =
                  IF speed.num > 0 /\ total > downloaded
                    THEN now + eta_seconds
                    ELSE p.estimated_completion,
               !.last_update = now]

\* ui_show_progress: always draws the percentage bar, 0% when total is 0
ProgressView(total) == "bar"


\* ui_show_progress: returns at once without ncurses, else draws under the
\* lock
UiShowProgressOps == IF ncurses_available THEN LockedDraw("ui_show_progress")
                                          ELSE << >>

----------------------------------------------------------------------------
(* main.c *)

EXIT_SUCCESS == "EXIT_SUCCESS"
EXIT_FAILURE == "EXIT_FAILURE"

\* the characters of an input line: blank and tab (isspace), a character a
\* format code may hold ('1') and one it may not ('/')
Whitespace == {" ", "\t"}
TextChars == Whitespace \cup {"1", "/"}

\* the lines fgets may deliver, without their newline
InputLines == UNION { [1..n -> TextChars] : n \in 0..MaxLineLen }

\* what prompt_for_format meets: a line, the end of the input, or a line
\* that does not fit the buffer; alloc_ok tells whether its malloc succeeds
PromptInputs ==
  { [kind |-> "line", chars |-> l, alloc_ok |-> ok] :
      l \in InputLines, ok \in BOOLEAN }
  \cup { [kind |-> k, chars |-> << >>, alloc_ok |-> TRUE] :
           k \in {"eof", "too_long"} }

NoPrompt == [kind |-> "none", chars |-> << >>, alloc_ok |-> TRUE]

\* trim_whitespace, first loop: skip the leading whitespace
RECURSIVE TrimLeading(_)
TrimLeading(l) ==
  IF l # << >> /\ Head(l) \in Whitespace THEN TrimLeading(Tail(l)) ELSE l

\* trim_whitespace, second loop: step back over the trailing whitespace
\* while end > start
RECURSIVE TrimTrailing(_)
TrimTrailing(l) ==
  IF Len(l) > 1 /\ l[Len(l)] \in Whitespace
    THEN TrimTrailing(SubSeq(l, 1, Len(l) - 1))
    ELSE l

TrimWhitespace(l) == TrimTrailing(TrimLeading(l))

\* validate_format_code: the empty string is valid, any other string must
\* consist of alphanumerics, '-', '_' and '.'
ValidateFormatCode(l) == \A i \in 1..Len(l) : l[i] = "1"

\* the C string of a sequence of characters
RECURSIVE CString(_)
CString(l) == IF l = << >> THEN "" ELSE Head(l) \o CString(Tail(l))

\* prompt_for_format: NULL on a read error, an overlong line, an invalid
\* code or a failed malloc, else a copy of the trimmed line
PromptForFormat(in) ==
  IF in.kind # "line" THEN NULL
  ELSE IF ~ValidateFormatCode(TrimWhitespace(in.chars)) THEN NULL
  ELSE IF ~in.alloc_ok THEN NULL
  ELSE CString(TrimWhitespace(in.chars))

\* what prompt_for_format may return in text mode: NULL, the empty string
\* (blank line) or a validated format code
PromptResults == { PromptForFormat(in) : in \in PromptInputs }

DEFAULT_FORMAT_CODE ==
  "bestvideo[ext=mp4]+bestaudio[ext=m4a]/best[ext=mp4]/best"

\* no argument array was built
NoArgs == [slots |-> 0, argv |-> << >>]

\* build_download_command_args: the number of slots it allocates and the
\* values it stores at the indices 0, 1, 2, ... in turn, the terminating
\* NULL included
BuildDownloadCommandArgs(code) ==
  LET has_format == code # NULL /\ code # ""
      arg_count  == IF has_format THEN 6 ELSE 5
  IN [slots |-> arg_count + 1,
      argv  |-> <<"yt-dlp", "-f",
                  IF has_format THEN code ELSE DEFAULT_FORMAT_CODE,
                  "-o", "output_template", "url", NULL>>]

\* how the child of execute_command_without_output may end: fork or waitpid
\* fails, the child is killed by a signal, or it exits with a status
MaxExitStatus == 2

ChildEnds ==
  {[kind |-> k, status |-> 0] : k \in {"fork_failed", "waitpid_failed",
                                       "signalled"}}
    \cup {[kind |-> "exited", status |-> c] : c \in 0..MaxExitStatus}

\* download_video has not returned: no child, and in place of the return
\* value a number that download_video never returns
NOT_RETURNED == 1

NoDownload == [child |-> [kind |-> "none", status |-> 0],
               ret |-> NOT_RETURNED]

ValidateChildStatus_signalIsSuccess(end) ==
  IF end.kind = "exited"
    THEN IF end.status # 0 THEN -1 ELSE end.status
    ELSE 0

\* validate_child_status
ValidateChildStatus(end) ==
  IF end.kind = "exited"
    THEN IF end.status # 0 THEN -1 ELSE end.status
    ELSE -1

\* execute_command_without_output, which download_video returns unchanged
ExecuteCommand(end) ==
  IF end.kind \in {"fork_failed", "waitpid_failed"} THEN -1
  ELSE ValidateChildStatus(end)

BuildFormatArg_passesEmpty(code) ==
  IF code # NULL THEN code ELSE DEFAULT_FORMAT_CODE

\* build_download_command_args: the argument that follows -f
BuildFormatArg(code) ==
  IF code # NULL /\ code # "" THEN code ELSE DEFAULT_FORMAT_CODE

\* nothing was performed at the cleanup label yet
NoLabel == [ui_cleanup |-> FALSE, free |-> FALSE]

\* the calls of main that precede the declaration of ui_state and use_ui
EarlySteps == <<"parse_arguments", "initialize_output_path",
                "validate_config", "display_config_info">>

\* one of these calls: on failure main jumps to the cleanup label
MainEarlyCheck(i) ==
  /\ pc = EarlySteps[i]
  /\ \E ok \in BOOLEAN :
       pc' = IF ~ok THEN "cleanup"
             ELSE IF i < Len(EarlySteps) THEN EarlySteps[i + 1]
             ELSE "ui_init"
  /\ UNCHANGED <<varsTty, varsUI, varsList, varsSel, use_ui, formats,
                 format_code, download_arg, result, h_init_ok, h_cleanups>>
  /\ UNCHANGED <<varsProg, varsCmd, varsLabel, varsLock, varsSurf, varsHist>>

\* get_video_info and its failure branch
MainGetInfo ==
  /\ pc = "get_info"
  /\ \E ok \in BOOLEAN :
       IF ok
         THEN /\ pc' = "parse_formats"
              /\ UNCHANGED <<g_ui_state, ncurses_available, in_curses,
                             tty_attrs, tcsetattr_done, h_cleanups,
                             status_msg, varsLock, varsSurf>>
         ELSE /\ IF use_ui
                   THEN /\ UiShowError(FALSE,
                                       "Failed to retrieve video information")
                        /\ UiCleanup
                        /\ RunOps(UiShowErrorOps(FALSE) \o UiCleanupOps)
                   ELSE UNCHANGED <<g_ui_state, ncurses_available, in_curses,
                                    tty_attrs, tcsetattr_done, h_cleanups,
                                    status_msg, varsLock, varsSurf>>
              /\ pc' = "cleanup"
  /\ UNCHANGED <<tty_lines, termios_saved, term_height, content_height,
                 resize_pending, shutdown_pending, stdscr_delay, win_delay,
                 content_view, varsList, varsSel, use_ui, formats,
                 format_code, download_arg, result, h_init_ok>>
  /\ UNCHANGED <<varsProg, varsCmd, varsLabel, varsHist>>

\* parse_formats and its failure branch; a parsed array is never empty
MainParseFormats ==
  /\ pc = "parse_formats"
  /\ \/ /\ \E fs \in FormatLists : formats' = fs
        /\ pc' = IF use_ui THEN "display" ELSE "text_prompt"
        /\ UNCHANGED <<g_ui_state, ncurses_available, in_curses, tty_attrs,
                       tcsetattr_done, h_cleanups, status_msg, varsLock,
                       varsSurf>>
     \/ /\ formats' = NoList
        /\ IF use_ui
             THEN /\ UiShowError(FALSE, "Failed to parse video formats")
                  /\ UiCleanup
                  /\ RunOps(UiShowErrorOps(FALSE) \o UiCleanupOps)
             ELSE UNCHANGED <<g_ui_state, ncurses_available, in_curses,
                              tty_attrs, tcsetattr_done, h_cleanups,
                              status_msg, varsLock, varsSurf>>
        /\ pc' = "cleanup"
  /\ decl_reached' = "video_info"
  /\ \E found \in BOOLEAN :
       video_info_allocated' = (use_ui /\ formats' # NoList /\ found)
  /\ UNCHANGED <<tty_lines, termios_saved, term_height, content_height,
                 resize_pending, shutdown_pending, stdscr_delay, win_delay,
                 content_view, varsList, varsSel, use_ui, format_code,
                 download_arg, result, h_init_ok, h_label>>
  /\ UNCHANGED <<varsProg, varsCmd, varsHist>>

\* UI mode: ui_display_video_info, ui_display_formats on a zeroed list
\* state, and the entry of ui_select_format_interactive up to its loop:
\* ui_show_status, blocking input, and touchwin / wrefresh / update_panels /
\* doupdate / top_panel with no lock taken
MainDisplay ==
  /\ pc = "display"
  /\ FirstDisplayFormats(formats)
  /\ status_msg' = "Select a format to download"
  /\ stdscr_delay' = BLOCKING
  /\ selected_format' = NULL
  /\ selecting' = TRUE
  /\ RunOps(LockedDraw("ui_display_video_info") \o UiDisplayFormatsOps
            \o UiShowStatusOps \o <<Op("mutate", "select_entry")>>)
  /\ pc' = "sel_loop"
  /\ UNCHANGED <<varsTty, g_ui_state, ncurses_available, term_height,
                 content_height, resize_pending, shutdown_pending, win_delay,
                 h_lastKey, h_outcome, use_ui, formats, format_code,
                 download_arg, result, h_init_ok, h_cleanups>>
  /\ UNCHANGED <<varsProg, varsCmd, varsLabel, varsSurf, varsHist>>

\* text mode: display_formats, release the array, prompt_for_format
MainTextPrompt ==
  /\ pc = "text_prompt"
  /\ formats' = NoList
  /\ \E in \in PromptInputs :
       /\ format_code' = PromptForFormat(in)
       /\ h_prompt' = in
  /\ pc' = "after_select"
  /\ UNCHANGED <<varsTty, varsUI, varsList, varsSel, use_ui, download_arg,
                 result, h_init_ok, h_cleanups, dl_format_arg, dl_args,
                 dl_result, varsLabel>>
  /\ UNCHANGED <<varsProg, varsLock, varsSurf, varsHist>>

MainAfterSelect_downloadsAnyway ==
  /\ pc = "after_select"
  /\ formats' = NoList
  /\ content_view' = IF use_ui THEN ProgressView(0) ELSE content_view
  /\ pc' = "download"
  /\ UNCHANGED <<varsTty, g_ui_state, ncurses_available, term_height,
                 content_height, resize_pending, shutdown_pending,
                 stdscr_delay, win_delay, status_msg, varsList, varsSel,
                 use_ui, format_code, download_arg, result, h_init_ok,
                 h_cleanups>>
  /\ UNCHANGED <<varsProg, varsCmd, varsLabel, varsLock, varsSurf, varsHist>>

\* main after the selection: no format code ends the run through
\* ui_cleanup, a format code goes on to the download
MainAfterSelect ==
  /\ pc = "after_select"
  /\ IF format_code = NULL
       THEN /\ IF use_ui
                 THEN /\ status_msg' = "Download cancelled"
                      /\ UiCleanup
                      /\ RunOps(UiShowStatusOps \o UiCleanupOps)
                 ELSE UNCHANGED <<g_ui_state, ncurses_available, in_curses,
                                  tty_attrs, tcsetattr_done, h_cleanups,
                                  status_msg, handles, win_geom, varsLock>>
            /\ pc' = "cleanup"
            /\ UNCHANGED <<formats, content_view>>
       ELSE /\ formats' = NoList
            /\ content_view' = IF use_ui THEN ProgressView(0)
                                         ELSE content_view
            /\ RunOps(IF use_ui THEN UiShowProgressOps ELSE << >>)
            /\ pc' = "download"
            /\ UNCHANGED <<g_ui_state, ncurses_available, in_curses,
                           tty_attrs, tcsetattr_done, h_cleanups, status_msg,
                           handles, win_geom>>
  /\ UNCHANGED <<tty_lines, termios_saved, term_height, content_height,
                 resize_pending, shutdown_pending, stdscr_delay, win_delay,
                 varsList, varsSel, use_ui, format_code, download_arg,
                 result, h_init_ok, stderr_msg>>
  /\ UNCHANGED <<varsProg, varsCmd, varsLabel, varsHist>>

\* download_video up to the launch of yt-dlp: in UI mode it shows the
\* progress panel and leaves curses mode for the duration of the child
\* (def_prog_mode, endwin); build_download_command_args fills the argument
\* array, and a store past its end either goes unnoticed or ends the process
MainDownloadStart ==
  /\ pc = "download"
  /\ download_arg' = format_code
  /\ dl_format_arg' = BuildFormatArg(format_code)
  /\ dl_args' = BuildDownloadCommandArgs(format_code)
  /\ IF use_ui /\ ncurses_available
       THEN /\ content_view' = ProgressView(0)
            /\ in_curses' = FALSE
            /\ tty_attrs' = "original"
            /\ RunOps(UiShowProgressOps)
       ELSE UNCHANGED <<content_view, in_curses, tty_attrs, varsLock>>
  /\ pc' \in IF Len(dl_args'.argv) > dl_args'.slots
               THEN {"downloading", "crashed"}
               ELSE {"downloading"}
  /\ UNCHANGED <<tty_lines, termios_saved, tcsetattr_done, g_ui_state,
                 ncurses_available, term_height, content_height,
                 resize_pending, shutdown_pending, stdscr_delay, win_delay,
                 status_msg, varsList, varsSel, use_ui, formats, format_code,
                 result, h_init_ok, h_cleanups, h_prompt, dl_result,
                 varsLabel>>
  /\ UNCHANGED <<varsProg, varsSurf, varsHist>>

\* the child has ended: download_video goes back to curses mode
\* (reset_prog_mode, refresh with no lock taken) and shows the progress
\* panel on success; main reports with ui_show_status or ui_show_error
MainDownloadDone ==
  /\ pc = "downloading"
  /\ IF use_ui /\ ncurses_available
       THEN /\ in_curses' = TRUE
            /\ tty_attrs' = "curses"
       ELSE UNCHANGED <<in_curses, tty_attrs>>
  /\ \E end \in ChildEnds :
       dl_result' = [child |-> end, ret |-> ExecuteCommand(end)]
  /\ LET ok == dl_result'.ret = 0 IN
       /\ result' = IF ok THEN EXIT_SUCCESS ELSE EXIT_FAILURE
       /\ IF ~use_ui
            THEN UNCHANGED <<status_msg, stderr_msg, varsLock>>
          ELSE IF ok
            THEN /\ status_msg' = "Download complete!"
                 /\ UNCHANGED stderr_msg
                 /\ RunOps((IF ncurses_available
                              THEN <<Op("mutate", "download_video")>>
                              ELSE << >>)
                           \o UiShowProgressOps \o UiShowStatusOps)
          ELSE /\ UiShowError(FALSE, "Video download failed")
               /\ RunOps((IF ncurses_available
                            THEN <<Op("mutate", "download_video")>>
                            ELSE << >>)
                         \o UiShowErrorOps(FALSE))
  /\ pc' = "cleanup"
  /\ UNCHANGED <<tty_lines, termios_saved, tcsetattr_done, g_ui_state,
                 ncurses_available, term_height, content_height,
                 resize_pending, shutdown_pending, stdscr_delay, win_delay,
                 content_view, varsList, varsSel, use_ui, formats,
                 format_code, download_arg, h_init_ok, h_cleanups, handles,
                 win_geom, dl_format_arg, h_prompt, dl_args>>
  /\ UNCHANGED <<varsProg, varsLabel, varsHist>>

MainCleanup_noUiCleanup ==
  /\ pc = "cleanup"
  /\ pc' = "exited"
  /\ UNCHANGED <<varsTty, varsUI, varsList, varsSel, use_ui, formats,
                 format_code, download_arg, result, h_init_ok, h_cleanups,
                 varsProg, varsCmd, varsLabel, varsLock, varsSurf, varsHist>>

\* what a read of main's use_ui yields: its value, or any value on the
\* paths that jumped to the cleanup label over its initialisation
ReadUseUi == IF decl_reached = "none" THEN BOOLEAN ELSE {use_ui}

\* what a read of main's video_info_allocated yields, likewise
ReadVideoInfoAllocated ==
  IF decl_reached = "video_info" THEN {video_info_allocated} ELSE BOOLEAN

\* the cleanup label of main: ui_cleanup and the free of the video-info
\* strings under use_ui; ui_cleanup on a UIState that ui_init never saw and
\* free on a video_info that was never zeroed either return or end the
\* process
MainCleanup ==
  /\ pc = "cleanup"
  /\ \E u \in ReadUseUi, a \in ReadVideoInfoAllocated :
       /\ h_label' = [ui_cleanup |-> u, free |-> u /\ a]
       /\ IF u /\ decl_reached # "none"
            THEN /\ UiCleanup
                 /\ RunOps(UiCleanupOps)
            ELSE UNCHANGED <<g_ui_state, ncurses_available, in_curses,
                             tty_attrs, tcsetattr_done, h_cleanups, handles,
                             win_geom, varsLock>>
       /\ pc' \in IF u /\ (decl_reached = "none"
                            \/ (a /\ decl_reached # "video_info"))
                     THEN {"exited", "crashed"}
                     ELSE {"exited"}
  /\ UNCHANGED <<tty_lines, termios_saved, term_height, content_height,
                 resize_pending, shutdown_pending, stdscr_delay, win_delay,
                 content_view, status_msg, varsList, varsSel, use_ui,
                 formats, format_code, download_arg, result, h_init_ok,
                 stderr_msg, decl_reached, video_info_allocated>>
  /\ UNCHANGED <<varsProg, varsCmd, varsHist>>

----------------------------------------------------------------------------
(* The program: main() with the signals that may arrive while it runs *)

NoApiCall == [fn |-> "none", state_null |-> FALSE, msg |-> ""]

Init ==
  /\ pc = "parse_arguments"
  /\ tty_lines \in TermHeights
  /\ in_curses = FALSE
  /\ tty_attrs = "original"
  /\ termios_saved = FALSE
  /\ tcsetattr_done = FALSE
  /\ g_ui_state = FALSE
  /\ ncurses_available = FALSE
  /\ use_ui = FALSE
  /\ term_height = 0
  /\ content_height = 0
  /\ resize_pending = 0
  /\ shutdown_pending = 0
  /\ stdscr_delay = BLOCKING
  /\ win_delay = BLOCKING
  /\ content_view = "none"
  /\ status_msg = ""
  /\ formats = NoList
  /\ ls_formats = NoList
  /\ total_formats = 0
  /\ selected_index = 0
  /\ visible_start = 0
  /\ visible_lines = 0
  /\ selecting = FALSE
  /\ selected_format = NULL
  /\ format_code = NULL
  /\ download_arg = NULL
  /\ result = EXIT_FAILURE
  /\ h_lastKey = "none"
  /\ h_outcome = "none"
  /\ h_init_ok = FALSE
  /\ h_cleanups = 0
  /\ progress = ZeroProgress
  /\ h_calls = << >>
  /\ h_times = {}
  /\ h_updates = 0
  /\ h_irregular = 0
  /\ ui_mutex = "uninit"
  /\ h_unguarded = {}
  /\ h_locked_read = FALSE
  /\ h_lock_misuse = {}
  /\ handles = NoHandles
  /\ win_geom = NoGeometry
  /\ stderr_msg = ""
  /\ h_downs = 0
  /\ h_ch = 0
  /\ h_resizes = 0
  /\ h_api = NoApiCall
  /\ dl_format_arg = NULL
  /\ h_prompt = NoPrompt
  /\ dl_args = NoArgs
  /\ dl_result = NoDownload
  /\ decl_reached = "none"
  /\ video_info_allocated = FALSE
  /\ h_label = NoLabel

Next ==
  \/ \E i \in 1..Len(EarlySteps) : MainEarlyCheck(i)
  \/ MainUiInit
  \/ MainGetInfo
  \/ MainParseFormats
  \/ MainDisplay
  \/ MainTextPrompt
  \/ SelLoopTop
  \/ SelKeyNav
  \/ SelKeyEnter
  \/ SelKeyQuit
  \/ SelKeyDefault
  \/ SelKeyEsc
  \/ SelEscNext
  \/ SelEscThird
  \/ SelEscTilde
  \/ SelReturn
  \/ MainAfterSelect
  \/ MainDownloadStart
  \/ MainDownloadDone
  \/ MainCleanup
  \/ Sigint

Spec == Init /\ [][Next]_vars


----------------------------------------------------------------------------
(* The progress record driven through its entry points while the UI is up *)

InitProgress ==
  /\ pc = "progress_api"
  /\ tty_lines \in {MaxTermHeight}
  /\ in_curses = TRUE
  /\ tty_attrs = "curses"
  /\ termios_saved = TRUE
  /\ tcsetattr_done = FALSE
  /\ g_ui_state = TRUE
  /\ ncurses_available = TRUE
  /\ use_ui = TRUE
  /\ term_height = tty_lines
  /\ content_height = ContentHeight(tty_lines)
  /\ resize_pending = 0
  /\ shutdown_pending = 0
  /\ stdscr_delay = UI_UPDATE_INTERVAL_MS
  /\ win_delay = BLOCKING
  /\ content_view = "none"
  /\ status_msg = ""
  /\ formats = NoList
  /\ ls_formats = NoList
  /\ total_formats = 0
  /\ selected_index = 0
  /\ visible_start = 0
  /\ visible_lines = 0
  /\ selecting = FALSE
  /\ selected_format = NULL
  /\ format_code = NULL
  /\ download_arg = NULL
  /\ result = EXIT_FAILURE
  /\ h_lastKey = "none"
  /\ h_outcome = "none"
  /\ h_init_ok = TRUE
  /\ h_cleanups = 0
  /\ progress = ZeroProgress
  /\ h_calls = << >>
  /\ h_times = {}
  /\ h_updates = 0
  /\ h_irregular = 0
  /\ ui_mutex = "unlocked"
  /\ h_unguarded = {}
  /\ h_locked_read = FALSE
  /\ h_lock_misuse = {}
  /\ handles = AllLive
  /\ win_geom = WindowGeometry(tty_lines)
  /\ stderr_msg = ""
  /\ h_downs = 0
  /\ h_ch = 0
  /\ h_resizes = 0
  /\ h_api = NoApiCall
  /\ dl_format_arg = NULL
  /\ h_prompt = NoPrompt
  /\ dl_args = NoArgs
  /\ dl_result = NoDownload
  /\ decl_reached = "video_info"
  /\ video_info_allocated = TRUE
  /\ h_label = NoLabel

\* one ui_update_progress call: the clock reads dt ticks after the previous
\* call and the caller reports db more bytes; the steady pace is one tick and
\* one byte per call, anything else (same tick, clock stepped back, byte
\* count stalled or decreased) is irregular
ProgUpdate ==
  /\ pc = "progress_api"
  /\ h_updates < MaxUpdates
  /\ \E dt \in {-1, 0, 1}, db \in {-1, 0, 1}, tot \in {0, TotalSize} :
       LET now == progress.last_update + dt
           downloaded == progress.downloaded_bytes + db
           total == IF h_updates = 0 THEN tot ELSE progress.total_bytes
           irr == IF dt = 1 /\ db = 1 THEN 0 ELSE 1
       IN /\ now >= 1
          /\ downloaded >= 0
          /\ tot = total
          /\ h_irregular + irr <= MaxIrregular
          /\ progress' = UpdateProgress(progress, now, downloaded, total)
          /\ h_irregular' = h_irregular + irr
          /\ h_calls' = IF Len(h_calls) < 2
                          THEN Append(h_calls, [t |-> now, b |-> downloaded])
                          ELSE h_calls
          /\ h_times' = IF progress'.sample_index # progress.sample_index
                          THEN h_times \cup {now} ELSE h_times
  /\ h_updates' = h_updates + 1
  /\ UNCHANGED <<varsTty, varsUI, varsList, varsSel, varsMain, varsLock,
                 varsSurf, varsHist, varsCmd, varsLabel>>

\* one ui_show_progress call on the record
ProgShow ==
  /\ pc = "progress_api"
  /\ ncurses_available
  /\ content_view' = ProgressView(progress.total_bytes)
  /\ RunOps(UiShowProgressOps)
  /\ UNCHANGED <<varsTty, g_ui_state, ncurses_available, term_height,
                 content_height, resize_pending, shutdown_pending,
                 stdscr_delay, win_delay, status_msg, varsList, varsSel,
                 varsMain, varsProg, varsCmd, varsLabel, varsSurf, varsHist>>

NextProgress ==
  \/ ProgUpdate
  \/ ProgShow

SpecProgress == InitProgress /\ [][NextProgress]_vars

----------------------------------------------------------------------------
(* The selection loop on long lists, driven by the Down and digit keys *)

ListLens == 1..MaxListLen

ListHeights == MinTermHeight..MaxListHeight

\* a formats array of n video entries
UniformList(n) ==
  [i \in 1..n |-> MkEntry([has_id |-> TRUE, resolution |-> "1920x1080"], i)]

\* the state in which ui_select_format_interactive enters its loop: the UI
\* is up and ui_display_formats has rendered once a list with a length in
\* lens on a terminal with a height in heights
InitSelect(heights, lens) ==
  /\ pc = "sel_loop"
  /\ tty_lines \in heights
  /\ in_curses = TRUE
  /\ tty_attrs = "curses"
  /\ termios_saved = TRUE
  /\ tcsetattr_done = FALSE
  /\ g_ui_state = TRUE
  /\ ncurses_available = TRUE
  /\ use_ui = TRUE
  /\ term_height = tty_lines
  /\ content_height = ContentHeight(tty_lines)
  /\ resize_pending = 0
  /\ shutdown_pending = 0
  /\ stdscr_delay = BLOCKING
  /\ win_delay = BLOCKING
  /\ content_view = "list"
  /\ status_msg = "Select a format to download"
  /\ formats \in { UniformList(n) : n \in lens }
  /\ ls_formats = formats
  /\ total_formats = Len(formats)
  /\ selected_index = 0
  /\ visible_start = 0
  /\ visible_lines = VisibleLines(content_height)
  /\ selecting = TRUE
  /\ selected_format = NULL
  /\ format_code = NULL
  /\ download_arg = NULL
  /\ result = EXIT_FAILURE
  /\ h_lastKey = "none"
  /\ h_outcome = "none"
  /\ h_init_ok = TRUE
  /\ h_cleanups = 0
  /\ progress = ZeroProgress
  /\ h_calls = << >>
  /\ h_times = {}
  /\ h_updates = 0
  /\ h_irregular = 0
  /\ ui_mutex = "unlocked"
  /\ h_unguarded = {"select_entry"}
  /\ h_locked_read = FALSE
  /\ h_lock_misuse = {}
  /\ handles = AllLive
  /\ win_geom = WindowGeometry(tty_lines)
  /\ stderr_msg = ""
  /\ h_downs = 0
  /\ h_ch = 0
  /\ h_resizes = 0
  /\ h_api = NoApiCall
  /\ dl_format_arg = NULL
  /\ h_prompt = NoPrompt
  /\ dl_args = NoArgs
  /\ dl_result = NoDownload
  /\ decl_reached = "video_info"
  /\ video_info_allocated = TRUE
  /\ h_label = NoLabel

InitList == InitSelect(ListHeights, ListLens)

\* KEY_DOWN read by the blocking wgetch; h_downs counts the presses while
\* nothing but Down was pressed and the count is at most total_formats - 1
ListKeyDown ==
  /\ pc = "sel_getch"
  /\ NavArm(KEY_DOWN)
  /\ RunOps(<<ReadOp>> \o NavOps(KEY_DOWN))
  /\ h_lastKey' = KeyLabel(KEY_DOWN)
  /\ h_downs' = IF h_downs >= 0 /\ h_downs < total_formats - 1
                  THEN h_downs + 1 ELSE -1
  /\ pc' = "sel_loop"
  /\ UNCHANGED <<varsTty, g_ui_state, ncurses_available, term_height,
                 content_height, resize_pending, shutdown_pending,
                 stdscr_delay, win_delay, status_msg, selecting,
                 selected_format, h_outcome, use_ui, formats, format_code,
                 download_arg, result, h_init_ok, h_cleanups, h_ch,
                 h_resizes, h_api>>
  /\ UNCHANGED <<varsProg, varsCmd, varsLabel, varsSurf>>

\* a digit key read by the blocking wgetch: the default arm
ListKeyDigit ==
  /\ pc = "sel_getch"
  /\ \E ch \in DigitKeys :
       /\ DefaultArm(ch)
       /\ RunOps(<<ReadOp>> \o DefaultOps(ch))
       /\ h_ch' = ch
  /\ h_downs' = -1
  /\ pc' = "sel_loop"
  /\ UNCHANGED <<varsTty, g_ui_state, ncurses_available, term_height,
                 content_height, resize_pending, shutdown_pending,
                 stdscr_delay, win_delay, status_msg, selecting,
                 selected_format, h_outcome, use_ui, formats, format_code,
                 download_arg, result, h_init_ok, h_cleanups, h_resizes,
                 h_api>>
  /\ UNCHANGED <<varsProg, varsCmd, varsLabel, varsSurf>>

NextList ==
  \/ SelLoopTop
  \/ ListKeyDown
  \/ ListKeyDigit

SpecList == InitList /\ [][NextList]_vars

----------------------------------------------------------------------------
(* The selection loop and the rest of main() in a terminal that is resized *)
(* while they run                                                          *)

InitResize == InitSelect(TermHeights, 1..MaxFormats)

NextResize ==
  \/ SelLoopTop
  \/ SelKeyNav
  \/ SelKeyEnter
  \/ SelKeyQuit
  \/ SelKeyDefault
  \/ SelKeyEsc
  \/ SelEscNext
  \/ SelEscThird
  \/ SelEscTilde
  \/ SelReturn
  \/ SelCrash
  \/ MainAfterSelect
  \/ MainDownloadStart
  \/ MainDownloadDone
  \/ MainCleanup
  \/ Sigint
  \/ Sigwinch

SpecResize == InitResize /\ [][NextResize]_vars

----------------------------------------------------------------------------
(* The UI entry points called on a UI state in any stage of its life *)

ErrorMessages == {"Failed to retrieve video information",
                  "Video download failed"}

\* a UIState on which ui_init has not been called yet
InitApi ==
  /\ pc = "api_init"
  /\ tty_lines \in TermHeights
  /\ in_curses = FALSE
  /\ tty_attrs = "original"
  /\ termios_saved = FALSE
  /\ tcsetattr_done = FALSE
  /\ g_ui_state = FALSE
  /\ ncurses_available = FALSE
  /\ use_ui = FALSE
  /\ term_height = 0
  /\ content_height = 0
  /\ resize_pending = 0
  /\ shutdown_pending = 0
  /\ stdscr_delay = BLOCKING
  /\ win_delay = BLOCKING
  /\ content_view = "none"
  /\ status_msg = ""
  /\ formats = NoList
  /\ ls_formats = NoList
  /\ total_formats = 0
  /\ selected_index = 0
  /\ visible_start = 0
  /\ visible_lines = 0
  /\ selecting = FALSE
  /\ selected_format = NULL
  /\ format_code = NULL
  /\ download_arg = NULL
  /\ result = EXIT_FAILURE
  /\ h_lastKey = "none"
  /\ h_outcome = "none"
  /\ h_init_ok = FALSE
  /\ h_cleanups = 0
  /\ progress = ZeroProgress
  /\ h_calls = << >>
  /\ h_times = {}
  /\ h_updates = 0
  /\ h_irregular = 0
  /\ ui_mutex = "uninit"
  /\ h_unguarded = {}
  /\ h_locked_read = FALSE
  /\ h_lock_misuse = {}
  /\ handles = NoHandles
  /\ win_geom = NoGeometry
  /\ stderr_msg = ""
  /\ h_downs = 0
  /\ h_ch = 0
  /\ h_resizes = 0
  /\ h_api = NoApiCall
  /\ dl_format_arg = NULL
  /\ h_prompt = NoPrompt
  /\ dl_args = NoArgs
  /\ dl_result = NoDownload
  /\ decl_reached = "video_info"
  /\ video_info_allocated = TRUE
  /\ h_label = NoLabel

\* ui_init (state)
ApiInit ==
  /\ pc = "api_init"
  /\ \E how \in InitModes, saved \in BOOLEAN :
       /\ UiInit(how, saved)
       /\ RunOps(UiInitOps(how))
       /\ h_init_ok' = (how = "ok")
  /\ h_api' = [fn |-> "ui_init", state_null |-> FALSE, msg |-> ""]
  /\ pc' = "api"
  /\ UNCHANGED <<tty_lines, tcsetattr_done, win_delay, content_view,
                 status_msg, varsList, varsSel, use_ui, formats, format_code,
                 download_arg, result, h_cleanups, stderr_msg, h_downs,
                 h_ch, h_resizes>>
  /\ UNCHANGED <<varsProg, varsCmd, varsLabel>>

\* ui_show_error (state, msg), with state possibly a null pointer; on a
\* mutex that is destroyed the lock call is undefined and may or may not
\* acquire it
ApiShowError ==
  /\ pc = "api"
  /\ \E state_null \in BOOLEAN, msg \in ErrorMessages, ub \in BOOLEAN :
       /\ UiShowError(state_null, msg)
       /\ RunOpsUb(UiShowErrorOps(state_null), ub)
       /\ h_api' = [fn |-> "ui_show_error", state_null |-> state_null,
                    msg |-> msg]
  /\ UNCHANGED <<varsTty, g_ui_state, ncurses_available, term_height,
                 content_height, resize_pending, shutdown_pending,
                 stdscr_delay, win_delay, content_view, varsList, varsSel,
                 varsMain, handles, win_geom, h_downs, h_ch, h_resizes>>
  /\ UNCHANGED <<varsProg, varsCmd, varsLabel>>

\* ui_cleanup (state)
ApiCleanup ==
  /\ pc = "api"
  /\ UiCleanup
  /\ RunOps(UiCleanupOps)
  /\ h_api' = [fn |-> "ui_cleanup", state_null |-> FALSE, msg |-> ""]
  /\ UNCHANGED <<tty_lines, termios_saved, term_height, content_height,
                 resize_pending, shutdown_pending, stdscr_delay, win_delay,
                 content_view, status_msg, varsList, varsSel, pc, use_ui,
                 formats, format_code, download_arg, result, h_init_ok,
                 stderr_msg, h_downs, h_ch, h_resizes>>
  /\ UNCHANGED <<varsProg, varsCmd, varsLabel>>

NextApi ==
  \/ ApiInit
  \/ ApiShowError
  \/ ApiCleanup

SpecApi == InitApi /\ [][NextApi]_vars

----------------------------------------------------------------------------
(* Properties *)

NavLabels == {"up", "down", "page_up", "page_down", "home", "end"}

AnyKeyLabels == NavLabels \cup {"esc_up", "esc_down", "esc_page_up",
                                "esc_page_down", "shortcut", "ignored",
                                "enter", "quit", "esc_alone", "esc_dropped"}

\* C1: after every up/down/page-up/page-down/home/end key action of the
\* selector the selected entry lies inside the viewport:
\* visible_start <= selected_index < visible_start + visible_lines.
C1_SelectionInsideViewport ==
  h_lastKey \in NavLabels =>
    /\ visible_start <= selected_index
    /\ selected_index < visible_start + visible_lines

\* C2: no key action of the selector leaves selected_index outside
\* [0, total_formats - 1], whatever the height of the content panel, and
\* pressing down at the last index changes neither selected_index nor
\* visible_start.
C2_KeysKeepIndexInRange ==
  [][ /\ h_lastKey' \in AnyKeyLabels =>
           (selected_index' >= 0 /\ selected_index' <= total_formats' - 1)
      /\ (h_lastKey' \in {"down", "esc_down"}
          /\ selected_index = total_formats - 1) =>
           (selected_index' = selected_index
            /\ visible_start' = visible_start) ]_vars

\* C3: the visible_lines that ui_display_formats derives from the height of
\* the content panel on a render is at least 1.
C3_VisibleLinesPositive ==
  content_view = "list" => visible_lines >= 1

C5_CancelDistinctFromError ==
  (pc = "after_select" /\ use_ui
   /\ h_outcome \in {"error_alloc", "error_no_id"}) => format_code # NULL

\* C6: an ESC byte followed by nothing within the 100 ms window ends the
\* selection as cancelled; ESC '[' 'A' performs navigate-up and ESC '[' 'B'
\* navigate-down, and neither cancels.
C6_EscapeDisambiguation ==
  [][ /\ (pc = "esc_next" /\ h_lastKey' = "esc_alone") =>
           /\ win_delay = ESC_WAIT_MS
           /\ ~selecting'
           /\ h_outcome' = "cancelled"
           /\ selected_format' = NULL
           /\ UNCHANGED varsList
      /\ (pc = "esc_third" /\ h_lastKey' = "esc_up") =>
           /\ selecting' /\ h_outcome' = "none"
           /\ selected_index' = IF selected_index > 0
                                  THEN selected_index - 1
                                  ELSE selected_index
           /\ pc' = "sel_loop"
      /\ (pc = "esc_third" /\ h_lastKey' = "esc_down") =>
           /\ selecting' /\ h_outcome' = "none"
           /\ selected_index' = IF selected_index < total_formats - 1
                                  THEN selected_index + 1
                                  ELSE selected_index
           /\ pc' = "sel_loop"
      /\ (pc = "sel_exit" /\ h_outcome = "cancelled") =>
           format_code' = NULL ]_vars

\* C6 witness: ESC '[' 'A' has just moved the selection up from the last
\* entry of a three-entry list, and the selection goes on.
C6_Witness ==
  /\ h_lastKey = "esc_up"
  /\ selecting
  /\ total_formats = 3
  /\ selected_index = 1
  /\ visible_lines = 1
  /\ visible_start = 1

\* C7: on a fresh progress record, two updates at timestamps t1 < t2 with
\* cumulative bytes b1 <= b2 leave the speed estimate (b2 - b1)/(t2 - t1);
\* one update leaves it 0.
C7_SpeedAfterTwoSamples ==
  /\ h_updates = 1 => progress.download_speed.num = 0
  /\ (h_updates = 2 /\ h_calls[1].t < h_calls[2].t
      /\ h_calls[1].b <= h_calls[2].b) =>
       progress.download_speed.num * (h_calls[2].t - h_calls[1].t)
         = (h_calls[2].b - h_calls[1].b) * progress.download_speed.den

C9_ZeroTotalIsIndeterminate ==
  (content_view \in {"bar", "spinner"} /\ progress.total_bytes = 0) =>
    content_view = "spinner"

\* C10: once ui_init has succeeded, main does not return before ui_cleanup
\* has torn the UI down: curses mode is ended and the saved terminal
\* attributes are restored on every exit path.
C10_CleanupOnEveryExit ==
  (pc = "exited" /\ h_init_ok) =>
    /\ h_cleanups = 1
    /\ ~ncurses_available
    /\ ~in_curses
    /\ tty_attrs = "original"
    /\ tcsetattr_done = termios_saved

\* C10 witness: main has returned after a download that failed, the one
\* exit path on which only the cleanup label calls ui_cleanup.
C10_Witness ==
  /\ pc = "exited"
  /\ h_init_ok
  /\ termios_saved
  /\ download_arg # NULL
  /\ result = EXIT_FAILURE

\* C11: when the user cancels during format selection (q/Q or a standalone
\* ESC) the external download is never launched, and control unwinds from
\* the selection loop through main to teardown: the process does not reach
\* its end with the terminal in curses (raw, no-echo) mode.
C11_CancelUnwindsToTeardown ==
  (use_ui /\ h_outcome = "cancelled") =>
    /\ pc \in {"sel_loop", "sel_exit", "after_select", "cleanup", "exited"}
    /\ selected_format = NULL
    /\ download_arg = NULL
    /\ pc \in {"cleanup", "exited"} =>
         /\ ~in_curses
         /\ tty_attrs = "original"
         /\ ~ncurses_available
         /\ h_cleanups = 1
         /\ tcsetattr_done = termios_saved
         /\ result = EXIT_FAILURE

\* C11 witness: main has returned after a cancelled selection.
C11_Witness ==
  /\ pc = "exited"
  /\ use_ui
  /\ h_outcome = "cancelled"
  /\ termios_saved
  /\ status_msg = "Download cancelled"

Max(a, b) == IF a >= b THEN a ELSE b

\* C12: from the initial list state (selected_index 0, visible_start 0) with
\* n entries and a viewport of v lines, pressing Down k times (k <= n - 1)
\* yields selected_index = k and visible_start = max(0, k - v + 1).
C12_DownKTimes ==
  (h_downs >= 1 /\ pc = "sel_loop") =>
    /\ selected_index = h_downs
    /\ visible_start = Max(0, h_downs - visible_lines + 1)

\* C13: a digit key d in '1'..'9' selects the zero-based index d - 1 when
\* d - 1 < total_formats; otherwise it is a no-op that leaves selected_index
\* and visible_start unchanged; in neither case does it end the selection.
C13_DigitShortcut ==
  [][ (pc = "sel_getch" /\ h_lastKey' \in {"shortcut", "ignored"}) =>
        LET d == h_ch' - 48
        IN /\ d \in 1..9
           /\ IF d - 1 < total_formats
                THEN /\ selected_index' = d - 1
                     /\ h_lastKey' = "shortcut"
                ELSE /\ selected_index' = selected_index
                     /\ visible_start' = visible_start
                     /\ h_lastKey' = "ignored"
           /\ UNCHANGED <<ls_formats, total_formats>>
           /\ selecting' /\ selecting
           /\ selected_format' = NULL
           /\ h_outcome' = "none"
           /\ pc' = "sel_loop" ]_vars

\* C13 witness: '5' has just selected index 4 of a five-entry list.
C13_Witness ==
  /\ h_lastKey = "shortcut"
  /\ h_ch = 53
  /\ total_formats = 5
  /\ selected_index = 4
  /\ selecting

\* C14: handling a latched terminal resize during the list display leaves
\* selected_index and the format list (its identity and total_formats)
\* unchanged, and the selection goes on.
C14_ResizePreservesSelection ==
  [][ (pc = "sel_loop" /\ pc' = "sel_getch" /\ resize_pending = 1) =>
        /\ resize_pending' = 0
        /\ term_height' = tty_lines
        /\ selected_index' = selected_index
        /\ ls_formats' = ls_formats
        /\ total_formats' = total_formats
        /\ UNCHANGED <<selecting, selected_format, formats>> ]_vars

\* C14 witness: a resize was handled while the third entry was selected, and
\* the third entry is still selected.
C14_Witness ==
  /\ pc = "sel_getch"
  /\ h_resizes = 1
  /\ resize_pending = 0
  /\ content_view = "blank"
  /\ handles = AllLive
  /\ term_height = tty_lines
  /\ total_formats = 3
  /\ selected_index = 2

\* C15: when a latched resize is handled the in-progress render is
\* re-applied to the recreated content panel as part of the handling: the
\* selection loop never waits for a key with the content panel blank.
C15_NoBlankFrameAfterResize ==
  (pc = "sel_getch" /\ handles = AllLive) => content_view = "list"

\* C16: after ui_handle_resize returns, also when the recreation of the
\* windows failed, every panel and window handle of the UI state refers to
\* a live object.
C16_HandlesLiveAfterResize ==
  (pc = "sel_getch" /\ g_ui_state) =>
    \A h \in HandleNames : handles[h] = "live"

\* C17: the signal handler only latches a flag: SIGWINCH changes nothing
\* but resize_pending, SIGINT/SIGTERM change nothing but shutdown_pending,
\* and with no UI state registered the handler changes nothing. A step that
\* leaves the main thread where it is is a signal delivery; the terminal
\* height changes with SIGWINCH and only then.
C17_SignalHandlerOnlyLatches ==
  [][ pc' = pc =>
        /\ UNCHANGED <<in_curses, tty_attrs, termios_saved, tcsetattr_done,
                       g_ui_state, ncurses_available, term_height,
                       content_height, stdscr_delay, win_delay,
                       content_view, status_msg, varsList, varsSel,
                       varsMain, varsProg, varsCmd, varsLabel, varsLock, varsSurf>>
        /\ IF tty_lines' # tty_lines
             THEN /\ shutdown_pending' = shutdown_pending
                  /\ resize_pending' = IF g_ui_state THEN 1
                                                     ELSE resize_pending
             ELSE /\ resize_pending' = resize_pending
                  /\ shutdown_pending' = IF g_ui_state THEN 1
                                                       ELSE shutdown_pending
    ]_vars

\* C17 witness: a SIGWINCH was delivered after teardown, when no UI state
\* is registered: the terminal has a new height and no flag was latched.
C17_Witness ==
  /\ pc = "cleanup"
  /\ h_init_ok
  /\ ~g_ui_state
  /\ h_resizes = 1
  /\ tty_lines # term_height
  /\ resize_pending = 0

\* C18: every panel mutation (erase, draw, touch, refresh, panel raise or
\* hide, screen refresh) performed while the interactive surface is active
\* happens while the render mutex is held.
C18_PanelMutationUnderMutex ==
  h_unguarded = {}

\* C19: the render mutex is never held at the moment the selection loop
\* issues an input read (the blocking wgetch or the 100 ms reads of the
\* escape handling).
C19_NoLockAcrossRead ==
  /\ ~h_locked_read
  /\ pc \in {"sel_getch", "esc_next", "esc_third", "esc_tilde5",
             "esc_tilde6"} => ui_mutex = "unlocked"

\* C19 witness: a key was read by the blocking wgetch right after a resize
\* had been handled under the lock.
C19_Witness ==
  /\ pc = "sel_loop"
  /\ h_lastKey = "down"
  /\ h_resizes = 1
  /\ resize_pending = 0
  /\ term_height = tty_lines
  /\ handles = AllLive
  /\ content_view = "list"
  /\ ui_mutex = "unlocked"

\* C20: whenever the interactive surface is unavailable (null state, never
\* initialised, torn down) ui_show_error writes the message to stderr and
\* touches no panel and no mutex; when the surface is active it writes to
\* the status panel instead.
C20_ShowErrorFallsBackToStderr ==
  [][ (pc = "api" /\ h_api'.fn = "ui_show_error") =>
        IF h_api'.state_null \/ ~in_curses \/ ~g_ui_state
          THEN /\ stderr_msg' = "Error: " \o h_api'.msg
               /\ UNCHANGED <<status_msg, varsLock, handles>>
          ELSE /\ status_msg' = "ERROR: " \o h_api'.msg
               /\ UNCHANGED stderr_msg ]_vars

\* C21: when ui_init fails the program does not crash or abort: main goes
\* on along the non-interactive path (text table and prompt_for_format,
\* then the download and the cleanup label) and calls no operation of the
\* interactive UI afterwards: the UI state, the windows, the mutex and the
\* terminal stay as the failed ui_init left them.
C21_InitFailureFallsBackToText ==
  [][ (decl_reached # "none" /\ ~h_init_ok /\ pc # "ui_init") =>
        /\ ~use_ui /\ ~use_ui'
        /\ pc' \in {"parse_formats", "text_prompt", "after_select",
                    "download", "downloading", "cleanup", "exited"}
        /\ (pc = "parse_formats" /\ formats' # NoList) => pc' = "text_prompt"
        /\ pc = "text_prompt" => /\ pc' = "after_select"
                                 /\ format_code' \in PromptResults
        /\ ~in_curses /\ tty_attrs = "original"
        /\ UNCHANGED <<varsTty, varsUI, varsList, varsSel, varsLock,
                       varsSurf, h_cleanups>> ]_vars

\* C21 witness: ui_init failed in create_windows (ncurses_available is left
\* set), and main has launched the download of a format code entered at the
\* text prompt.
C21_Witness ==
  /\ pc = "downloading"
  /\ ~h_init_ok
  /\ ~use_ui
  /\ ncurses_available
  /\ ui_mutex = "destroyed"
  /\ h_prompt.chars = <<" ", "1", "1">>
  /\ download_arg = "11"

\* C22: while the selection loop waits for a key in its normal state the
\* input is in blocking mode (no timeout on stdscr nor on the content
\* window it reads from); when ui_select_format_interactive has returned,
\* whatever the outcome (selection, error, cancel, shutdown), the input is
\* back in the 100 ms timeout mode of the progress display.
C22_BlockingWhileSelecting ==
  /\ pc = "sel_getch" => /\ stdscr_delay = BLOCKING
                         /\ win_delay = BLOCKING
  /\ (use_ui /\ pc = "after_select") =>
       /\ h_outcome \in {"selected", "error_no_id", "error_alloc",
                         "cancelled", "shutdown"}
       /\ stdscr_delay = UI_UPDATE_INTERVAL_MS

\* C22 witness: the selection was ended by a shutdown signal and the input
\* is in the 100 ms mode again.
C22_Witness ==
  /\ use_ui
  /\ pc = "after_select"
  /\ h_outcome = "shutdown"
  /\ format_code = NULL
  /\ stdscr_delay = UI_UPDATE_INTERVAL_MS

\* C23: in text mode a blank or whitespace-only line at the format prompt
\* is accepted (prompt_for_format returns the empty string when its
\* allocation succeeds) and the download is launched with the default
\* best-quality selector after -f: it neither fails nor passes an empty
\* format argument.
C23_BlankLineMeansDefaultFormat ==
  (/\ h_prompt.kind = "line"
   /\ \A i \in 1..Len(h_prompt.chars) : h_prompt.chars[i] \in Whitespace
   /\ h_prompt.alloc_ok) =>
    /\ ~use_ui
    /\ format_code = ""
    /\ pc \in {"after_select", "download", "downloading", "cleanup",
               "exited"}
    /\ pc \in {"downloading", "cleanup", "exited"} =>
         /\ download_arg = ""
         /\ dl_format_arg = DEFAULT_FORMAT_CODE

\* C23 witness: a line of a blank and a tab was entered and yt-dlp runs
\* with the default selector.
C23_Witness ==
  /\ pc = "downloading"
  /\ h_prompt.kind = "line"
  /\ h_prompt.chars = <<" ", "\t">>
  /\ h_prompt.alloc_ok
  /\ dl_format_arg = DEFAULT_FORMAT_CODE

\* C24: once the ring retains at least two samples, the newest one later
\* than the oldest one and with no fewer bytes, the speed estimate equals
\* (newest.bytes - oldest.bytes) / (newest.time - oldest.time), where newest
\* is the sample written last (the one under the cursor) and oldest the
\* sample written longest ago that the ring still holds, also after the
\* ring of 10 has wrapped.
C24_SpeedFromOldestToNewest ==
  LET p == progress
      written == { i \in 0..(SPEED_SAMPLE_SIZE - 1) :
                     p.samples[i].timestamp # 0 }
      \* slots in the order in which they are overwritten next
      age(i) == (i - p.sample_index - 1 + SPEED_SAMPLE_SIZE)
                  % SPEED_SAMPLE_SIZE
      oldest_idx == CHOOSE i \in written :
                      \A j \in written : age(i) <= age(j)
      newest == p.samples[p.sample_index]
      oldest == p.samples[oldest_idx]
      time_diff == newest.timestamp - oldest.timestamp
      byte_diff == newest.bytes - oldest.bytes
  IN (Cardinality(written) >= 2 /\ time_diff > 0 /\ byte_diff >= 0) =>
       p.download_speed.num * time_diff = byte_diff * p.download_speed.den

\* C25: ui_update_progress appends a ring sample only if the current time
\* differs from the timestamp stored under the ring cursor: an update in
\* the same clock tick as the previous one leaves the ring contents and the
\* cursor unchanged, an update in another tick writes one sample (that
\* tick, the bytes reported) in the next slot in round-robin order, and
\* the cursor always stays within [0, K).
C25_OneSamplePerTick ==
  [][ h_updates' = h_updates + 1 =>
        LET now == progress'.last_update
            cursor == progress.sample_index
            next == (cursor + 1) % SPEED_SAMPLE_SIZE
        IN /\ progress'.sample_index \in 0..(SPEED_SAMPLE_SIZE - 1)
           /\ (h_updates >= 1 /\ now = progress.last_update) =>
                now = progress.samples[cursor].timestamp
           /\ IF now = progress.samples[cursor].timestamp
                THEN /\ progress'.samples = progress.samples
                     /\ progress'.sample_index = cursor
                ELSE /\ progress'.sample_index = next
                     /\ progress'.samples =
                          [progress.samples EXCEPT ![next] =
                             [timestamp |-> now,
                              bytes |-> progress'.downloaded_bytes]]
     ]_vars

\* C25 witness: the second update came in the tick of the first with more
\* bytes, and the ring still holds the one sample of the first update.
C25_Witness ==
  /\ h_updates = 2
  /\ h_calls[1].t = h_calls[2].t
  /\ h_calls[2].b > h_calls[1].b
  /\ progress.sample_index = 1
  /\ progress.samples[1] = [timestamp |-> h_calls[1].t,
                            bytes |-> h_calls[1].b]
  /\ progress.downloaded_bytes = h_calls[2].b

\* C26: ui_update_progress recomputes estimated_completion as
\* now + (total - downloaded) / rate (in whole seconds) only when rate > 0
\* and total > downloaded; in every other case the previous
\* estimated_completion is left as it was, not reset.
C26_EtaRecomputedOrStale ==
  [][ h_updates' = h_updates + 1 =>
        LET now == progress'.last_update
            rate == progress'.download_speed
            remaining == progress'.total_bytes - progress'.downloaded_bytes
            eta_seconds == progress'.estimated_completion - now
        IN IF rate.num > 0 /\ remaining > 0
             THEN /\ eta_seconds * rate.num <= remaining * rate.den
                  /\ remaining * rate.den < (eta_seconds + 1) * rate.num
             ELSE progress'.estimated_completion =
                    progress.estimated_completion
     ]_vars

\* C26 witness: an estimate was computed while the rate was positive, the
\* rate has since dropped to 0, and the old estimate is still in place.
C26_Witness ==
  /\ h_updates >= 1
  /\ progress.download_speed.num = 0
  /\ progress.total_bytes > progress.downloaded_bytes
  /\ progress.estimated_completion > 0

Min(a, b) == IF a <= b THEN a ELSE b

\* C27: Page Down from index i sets selected_index to
\* min(i + visible_lines, total - 1) and Page Up to
\* max(i - visible_lines, 0); Home sets it to 0 and End to total - 1; each
\* then applies the scroll rule: visible_start becomes selected_index when
\* that is above the viewport, selected_index - visible_lines + 1 when it
\* is below, and stays otherwise.
C27_PagingAndJumps ==
  [][ (/\ pc \in {"sel_getch", "esc_tilde5", "esc_tilde6"}
       /\ h_lastKey' \in {"page_up", "page_down", "home", "end",
                          "esc_page_up", "esc_page_down"}) =>
        LET i == selected_index
            target ==
              CASE h_lastKey' \in {"page_down", "esc_page_down"} ->
                     Min(i + visible_lines, total_formats - 1)
                [] h_lastKey' \in {"page_up", "esc_page_up"} ->
                     Max(i - visible_lines, 0)
                [] h_lastKey' = "home" -> 0
                [] h_lastKey' = "end" -> total_formats - 1
        IN /\ selected_index' = target
           /\ visible_start' =
                IF target < visible_start THEN target
                ELSE IF target >= visible_start + visible_lines
                  THEN target - visible_lines + 1
                ELSE visible_start
           /\ UNCHANGED <<ls_formats, total_formats, selecting>>
     ]_vars

\* C27 witness: Page Down on a two-line viewport has moved the selection
\* from the first to the third entry and scrolled the list by one.
C27_Witness ==
  /\ h_lastKey = "page_down"
  /\ total_formats = 3
  /\ visible_lines = 2
  /\ selected_index = 2
  /\ visible_start = 1

\* C28: the 'a' / 'A' shortcut selects the entry of lowest index whose
\* resolution label is the "N/A" sentinel or contains "audio", and the
\* selection goes on; when no entry qualifies, selected_index and
\* visible_start are unchanged.
C28_AudioShortcut ==
  [][ (pc = "sel_getch" /\ h_ch' \in {97, 65}) =>
        LET hits == { i \in 0..(total_formats - 1) :
                        ls_formats[i + 1].resolution
                          \in {"N/A", "audio only"} }
        IN /\ IF hits = {}
                THEN /\ selected_index' = selected_index
                     /\ visible_start' = visible_start
                ELSE /\ selected_index' \in hits
                     /\ \A j \in hits : selected_index' <= j
           /\ selecting' /\ pc' = "sel_loop"
           /\ UNCHANGED <<ls_formats, total_formats, selected_format>>
     ]_vars

\* C28 witness: the key a has put the selection on the
\* third entry, the first audio entry of the list.
C28_Witness ==
  /\ h_ch = 97
  /\ h_lastKey = "shortcut"
  /\ total_formats = 3
  /\ ls_formats[1].resolution = "1920x1080"
  /\ ls_formats[2].resolution = "1280x720"
  /\ ls_formats[3].resolution = "audio only"
  /\ selected_index = 2

\* C29: an ESC byte followed within the window by a byte other than '['
\* neither cancels nor changes the selection; every escape handling,
\* whatever its branch (also an ESC '[' sequence that is not completed),
\* ends in the normal state with the blocking read restored, so that
\* nothing of it is left when a later ESC is read.
C29_EscapeHandlingLeavesNoState ==
  [][ /\ (pc = "esc_next" /\ h_lastKey' = "esc_dropped") =>
           /\ UNCHANGED <<varsList, selecting, selected_format, h_outcome>>
           /\ selecting'
           /\ pc' = "sel_loop"
      /\ (pc \in {"esc_next", "esc_third", "esc_tilde5", "esc_tilde6"}
          /\ pc' # pc) =>
           \/ pc' = "sel_loop" /\ win_delay' = BLOCKING
           \/ /\ pc' \in {"esc_third", "esc_tilde5", "esc_tilde6"}
              /\ win_delay' = ESC_WAIT_MS
      /\ pc' \in {"sel_loop", "sel_getch", "sel_exit"} =>
           win_delay' = BLOCKING
      /\ pc' \in {"esc_next", "esc_third", "esc_tilde5", "esc_tilde6"} =>
           pc \in {"sel_getch", "esc_next", "esc_third", "esc_tilde5",
                   "esc_tilde6"}
     ]_vars

\* C29 witness: ESC and a byte other than '[' were read while the second
\* entry was selected; the selection goes on from the second entry with
\* the blocking read restored.
C29_Witness ==
  /\ pc = "sel_loop"
  /\ h_lastKey = "esc_dropped"
  /\ selecting
  /\ h_outcome = "none"
  /\ selected_index = 1
  /\ win_delay = BLOCKING

\* C30: a key that is not a navigation key, Enter, ESC, q/Q or an
\* applicable shortcut (b, w, a with an audio entry, a digit inside the
\* list), the error value of the read included, leaves selected_index,
\* visible_start and the list unchanged and does not end the selection.
C30_UnrecognisedKeyIgnored ==
  [][ LET ch == h_ch'
          hits == { i \in 0..(total_formats - 1) :
                      ls_formats[i + 1].resolution
                        \in {"N/A", "audio only"} }
          applicable ==
            \/ ch \in {98, 66, 119, 87}
            \/ ch \in {97, 65} /\ hits # {}
            \/ ch \in 49..57 /\ ch - 49 < total_formats
      IN (pc = "sel_getch" /\ ch # 0 /\ ~applicable) =>
           /\ ch \notin NavKeys \cup EnterKeys \cup QuitKeys \cup {ESC}
           /\ UNCHANGED <<selected_index, visible_start, visible_lines,
                          ls_formats, total_formats, formats, content_view>>
           /\ UNCHANGED <<selecting, selected_format, h_outcome>>
           /\ selecting'
           /\ pc' = "sel_loop"
     ]_vars

\* C30 witness: the read returned its error value while the second entry
\* was selected, and the selection goes on from the second entry.
C30_Witness ==
  /\ pc = "sel_loop"
  /\ h_ch = ERR
  /\ h_lastKey = "ignored"
  /\ selecting
  /\ selected_index = 1
  /\ content_view = "list"

C32_SelectionVisibleAfterResize ==
  (/\ pc = "sel_loop"
   /\ h_lastKey \in NavLabels \cup {"esc_up", "esc_down", "esc_page_up",
                                     "esc_page_down"}
   /\ h_resizes >= 1
   /\ resize_pending = 0
   /\ handles = AllLive
   /\ content_view = "list"
   /\ visible_lines = VisibleLines(ContentHeight(tty_lines))
   /\ visible_lines >= 1) =>
    /\ visible_start <= selected_index
    /\ selected_index < visible_start + visible_lines

----------------------------------------------------------------------------
(* ui_handle_resize taken statement by statement, so that a signal can be *)
(* delivered between its statements                                       *)

\* SIGWINCH deliveries in a run of the stepwise handler
MaxRaceResizes == 2

InitRace == InitSelect(TermHeights, 1..MaxFormats)

\* SIGWINCH at any point of the loop, the inside of ui_handle_resize included
RaceSigwinch ==
  /\ pc \in {"sel_loop", "hr_deleted", "hr_created", "sel_getch"}
  /\ h_resizes < MaxRaceResizes
  /\ \E h \in TermHeights \ {tty_lines} : tty_lines' = h
  /\ UiSignalHandler("SIGWINCH")
  /\ h_resizes' = h_resizes + 1
  /\ UNCHANGED <<in_curses, tty_attrs, termios_saved, tcsetattr_done,
                 g_ui_state, ncurses_available, term_height, content_height,
                 stdscr_delay, win_delay, content_view, status_msg, varsList,
                 varsSel, varsMain, h_downs, h_ch, h_api>>
  /\ UNCHANGED <<varsProg, varsCmd, varsLabel, varsLock, varsSurf>>

\* the loop test and the first half of ui_handle_resize: the early return,
\* ui_lock, endwin / refresh / clear, del_panel and delwin
HrDeleteWindows ==
  /\ pc = "sel_loop"
  /\ IF selecting /\ shutdown_pending = 0
       THEN IF resize_pending = 0
              THEN /\ pc' = "sel_getch"
                   /\ UNCHANGED <<handles, varsLock>>
              ELSE /\ pc' = "hr_deleted"
                   /\ handles' = DeleteAll(handles)
                   /\ RunOps(<<Op("lock", "ui_handle_resize"),
                               Op("mutate", "ui_handle_resize")>>)
       ELSE /\ pc' = "sel_exit"
            /\ UNCHANGED <<handles, varsLock>>
  /\ h_outcome' = IF selecting /\ shutdown_pending # 0 THEN "shutdown"
                                                       ELSE h_outcome
  /\ h_lastKey' = "none"
  /\ h_ch' = 0
  /\ UNCHANGED <<varsTty, varsUI, varsList, selecting, selected_format,
                 use_ui, formats, format_code, download_arg, result,
                 h_init_ok, h_cleanups, stderr_msg, win_geom>>
  /\ UNCHANGED <<varsProg, varsCmd, varsLabel, h_downs, h_resizes, h_api>>

\* create_windows inside ui_handle_resize: getmaxyx and the three newwin,
\* then update_panels and doupdate
HrCreateWindows ==
  /\ pc = "hr_deleted"
  /\ \E how \in CreateModes :
       /\ handles' = CreateWindows(handles, how)
       /\ content_height' = IF how = "ok" THEN ContentHeight(tty_lines)
                                          ELSE content_height
  /\ term_height' = tty_lines
  /\ win_geom' = WindowGeometry(tty_lines)
  /\ content_view' = "blank"
  /\ win_delay' = BLOCKING
  /\ RunOps(<<Op("mutate", "ui_handle_resize")>>)
  /\ pc' = "hr_created"
  /\ UNCHANGED <<varsTty, g_ui_state, ncurses_available, resize_pending,
                 shutdown_pending, stdscr_delay, status_msg, varsList,
                 varsSel, use_ui, formats, format_code, download_arg, result,
                 h_init_ok, h_cleanups, stderr_msg>>
  /\ UNCHANGED <<varsProg, varsCmd, varsLabel, varsHist>>

\* the end of ui_handle_resize: resize_pending = 0 and ui_unlock
HrClearPending ==
  /\ pc = "hr_created"
  /\ resize_pending' = 0
  /\ RunOps(<<Op("unlock", "ui_handle_resize")>>)
  /\ pc' = "sel_getch"
  /\ UNCHANGED <<varsTty, g_ui_state, ncurses_available, term_height,
                 content_height, shutdown_pending, stdscr_delay, win_delay,
                 content_view, status_msg, varsList, varsSel, use_ui,
                 formats, format_code, download_arg, result, h_init_ok,
                 h_cleanups>>
  /\ UNCHANGED <<varsProg, varsCmd, varsLabel, varsSurf, varsHist>>

NextRace ==
  \/ HrDeleteWindows
  \/ HrCreateWindows
  \/ HrClearPending
  \/ SelKeyNav
  \/ SelKeyQuit
  \/ SelCrash
  \/ RaceSigwinch

SpecRace == InitRace /\ [][NextRace]_vars

\* C33: when ui_handle_resize has returned, a resize signalled while it ran
\* is not lost: resize_pending is still set, or the windows have the
\* geometry of the terminal's latest size
C33_ResizeDuringHandlerNotLost ==
  pc = "sel_getch" =>
    \/ resize_pending = 1
    \/ /\ term_height = tty_lines
       /\ win_geom = WindowGeometry(tty_lines)

\* the positions of the main thread inside the loop of
\* ui_select_format_interactive
SelectingPcs == {"sel_loop", "sel_getch", "esc_next", "esc_third",
                 "esc_tilde5"}

\* C34: once shutdown_pending is latched while the selection loop is still
\* selecting, no key makes the selector pick an identifier (so that it
\* returns none and main launches no download)
C34_ShutdownLatchedSelectsNothing ==
  [][(/\ pc \in SelectingPcs
      /\ selecting
      /\ selected_format = NULL
      /\ shutdown_pending = 1) => selected_format' = NULL]_vars

----------------------------------------------------------------------------
(* The selection loop with the scheduling the code has: the loop's own    *)
(* statements are executed sooner or later, a key arrives when the user   *)
(* presses one (or never) and a signal when one is sent                   *)

InitWaiting == InitSelect(TermHeights, 1..MaxFormats)

NextWaiting ==
  \/ SelLoopTop
  \/ SelKeyNav
  \/ SelKeyEnter
  \/ SelKeyQuit
  \/ SelReturn
  \/ SelCrash
  \/ Sigint
  \/ Sigwinch

\* the handlers are installed with SA_RESTART and the content window is
\* blocking: wgetch returns only for a key, so no key action is fair
SpecWaiting ==
  /\ InitWaiting
  /\ [][NextWaiting]_vars
  /\ WF_vars(SelLoopTop)
  /\ WF_vars(SelReturn)

\* C35: a shutdown or resize latched while the loop waits in wgetch is
\* eventually acted on (the loop leaves the wait and ends, or recreates the
\* windows and clears the latch) even if no key is pressed
C35_LatchedSignalActedOnWithoutKey ==
  (pc = "sel_getch" /\ (shutdown_pending = 1 \/ resize_pending = 1))
    ~> (\/ pc \notin SelectingPcs
        \/ shutdown_pending = 0 /\ resize_pending = 0)

\* C37: the cleanup label calls ui_cleanup and frees the video-info strings
\* only when ui_init was called and returned success
C37_LabelCleanupOnlyAfterInit ==
  (h_label.ui_cleanup \/ h_label.free) => h_init_ok

C36_WitnessFailure ==
  /\ pc = "exited"
  /\ result = EXIT_FAILURE
  /\ dl_result.child.kind = "signalled"

\* C38: build_download_command_args stores no argument at an index beyond
\* the slots it allocated
C38_ArgsWithinAllocation ==
  Len(dl_args.argv) <= dl_args.slots

\* C39: a ui_cleanup called by the cleanup label after an earlier ui_cleanup
\* has torn the UI down changes nothing: no handle, terminal, mutex or UI
\* field is touched
C39_SecondCleanupIsNoOp ==
  [][(/\ pc = "cleanup"
      /\ h_cleanups >= 1
      /\ h_label'.ui_cleanup)
     => UNCHANGED <<varsTty, varsUI, varsLock, varsSurf, h_cleanups>>]_vars

\* C39 witness: main has returned after a cancelled selection, where
\* ui_cleanup ran in the cancellation branch and again at the cleanup label
C39_Witness ==
  /\ pc = "exited"
  /\ h_outcome = "cancelled"
  /\ h_label.ui_cleanup
  /\ h_cleanups = 1
  /\ ui_mutex = "destroyed"

\* C40: between two UI operations the mutex is never held (every operation
\* that locked it has unlocked it before returning), no operation locks the
\* mutex while it is held, and ui_cleanup never destroys it while it is held
C40_LockDiscipline ==
  /\ ui_mutex # "locked"
  /\ h_lock_misuse = {}

\* C40 witness: after a resize handled under the lock, a navigation key has
\* redrawn the list (update_format_display calling ui_display_formats), the
\* selection was cancelled and ui_cleanup has destroyed the mutex
C40_Witness ==
  /\ pc = "exited"
  /\ h_resizes >= 1
  /\ resize_pending = 0
  /\ content_view = "hidden"
  /\ selected_index > 0
  /\ h_outcome = "cancelled"
  /\ ui_mutex = "destroyed"

============================================================================
